---- MODULE Spec2Model ----
(***************************************************************************)
(* Offline cache + operation queue + synchronization subsystem of the      *)
(* AsterixDB JavaScript connector:                                         *)
(*   SyncManager              (src/offline/SyncManager.js)                 *)
(*   LocalStorageAdapter      (src/offline/LocalStorageAdapter.js)         *)
(*   OfflineEnabledConnector  (src/offline/OfflineEnabledConnector.js)     *)
(*                                                                         *)
(* JavaScript runs each handler to completion between two awaits, so one   *)
(* action of the model is the code that runs from the resolution of one    *)
(* awaited promise up to the next await (or the end of the call).          *)
(***************************************************************************)
EXTENDS Integers, Sequences, FiniteSets, TLC

\* ------------------------------------------------------------------ bounds
\* number of calls that can be in flight at once
NumSlots == 2
\* number of API calls / timer firings started in one behaviour
MaxCalls == 2
\* last value of the clock (Date.now()); the unit is the default cache TTL
MaxTime == 2
\* number of backend I/O failures injected in one behaviour
MaxFaults == 1
\* number of connectivity transitions in one behaviour
MaxFlips == 1
\* calls of the cache API in one behaviour
MaxAdapterCalls == 4

Slots == 1..NumSlots

\* ----------------------------------------------------------------- queries
\* A query text is a sequence of tokens; " " is white space, the other
\* tokens are words (in upper or lower case).
toUpperCase(q) ==
  [k \in 1..Len(q) |->
     CASE q[k] = "insert" -> "INSERT"
       [] q[k] = "upsert" -> "UPSERT"
       [] q[k] = "select" -> "SELECT"
       [] OTHER -> q[k]]

RECURSIVE trimStart(_)
trimStart(q) == IF Len(q) > 0 /\ Head(q) = " " THEN trimStart(Tail(q)) ELSE q

RECURSIVE trimEnd(_)
trimEnd(q) ==
  IF Len(q) > 0 /\ q[Len(q)] = " " THEN trimEnd(SubSeq(q, 1, Len(q) - 1)) ELSE q

trim(q) == trimEnd(trimStart(q))

startsWith(q, prefix) ==
  Len(q) >= Len(prefix) /\ SubSeq(q, 1, Len(prefix)) = prefix

\* the statements used as inputs
QInsert == <<"INSERT", " ", "t1">>
QInsertLower == <<" ", "insert", " ", "t1">>
QUpdate == <<"UPDATE", " ", "t1">>
QDelete == <<"DELETE", " ", "t1">>
QUpsert == <<"UPSERT", " ", "t1">>
QCreate == <<"CREATE", " ", "t1">>
QDrop == <<"DROP", " ", "t1">>
QLoad == <<"LOAD", " ", "t1">>
QSet == <<"SET", " ", "x">>
QSelect == <<"SELECT", " ", "t1">>
QSelectLower == <<"select", " ", "t2", " ">>
QUseInsert == <<"USE", " ", "dv", ";", "INSERT", " ", "t1">>
\* the statement of AsterixCollection.deleteOne: a template literal that
\* starts with a line break
QUseDelete == <<" ", "USE", " ", "dv", ";", " ", "DELETE", " ", "t1">>
NoQuery == <<>>

\* OfflineEnabledConnector.isReadOnlyQuery
writeOperations ==
  {<<"INSERT">>, <<"UPSERT">>, <<"DELETE">>, <<"UPDATE">>, <<"CREATE">>,
   <<"DROP">>, <<"LOAD">>, <<"SET", " ">>}

isReadOnlyQuery(query) ==
  IF query = NoQuery
  THEN FALSE
  ELSE LET normalized == toUpperCase(trim(query))
       IN ~ \E op \in writeOperations : startsWith(normalized, op)

\* (mutant) the type is taken from the text as given
getOperationTypeRaw(query) ==
  IF query = NoQuery THEN "UNKNOWN"
  ELSE IF \E t \in {"INSERT", "UPSERT", "DELETE", "UPDATE", "CREATE", "DROP", "LOAD"} :
            startsWith(query, <<t>>)
       THEN query[1]
       ELSE "UNKNOWN"

\* OfflineEnabledConnector.getOperationType
getOperationType(query) ==
  IF query = NoQuery
  THEN "UNKNOWN"
  ELSE LET normalized == toUpperCase(trim(query))
       IN CASE startsWith(normalized, <<"INSERT">>) -> "INSERT"
            [] startsWith(normalized, <<"UPSERT">>) -> "UPSERT"
            [] startsWith(normalized, <<"DELETE">>) -> "DELETE"
            [] startsWith(normalized, <<"UPDATE">>) -> "UPDATE"
            [] startsWith(normalized, <<"CREATE">>) -> "CREATE"
            [] startsWith(normalized, <<"DROP">>) -> "DROP"
            [] startsWith(normalized, <<"LOAD">>) -> "LOAD"
            [] OTHER -> "UNKNOWN"

\* OfflineEnabledConnector.generateCacheKey: the digest of the serialized
\* pair, which tells two different pairs apart
generateCacheKey(query, options) == <<query, options>>

\* crypto.randomUUID(): the n-th identifier drawn, never one drawn before
UuidOrder == <<"uuid1", "uuid2", "uuid3", "uuid4">>
randomUUID(n) == UuidOrder[n]

\* ------------------------------------------------------------------- cache
\* LocalStorageAdapter.options.cacheTTL
AdapterCacheTTL == 1
\* OfflineEnabledConnector.options.cacheTTL when none is configured
DefaultCacheTTL == 1

Null ==
  [data |-> "",
   metadata |-> [timestamp |-> -1, expiresAt |-> -1, ttl |-> -1, lastAccessed |-> -1]]

\* LocalStorageAdapter.setCache: the entry built at time t from data and the
\* metadata argument, whose fields (timestamp, ttl) are spread over the
\* adapter's own; ttl = 0 stands for "no ttl field"
NewCacheEntry(data, metadata, t) ==
  [data |-> data,
   metadata |-> [timestamp |-> IF "timestamp" \in DOMAIN metadata
                               THEN metadata.timestamp ELSE t,
                 expiresAt |-> t + AdapterCacheTTL,
                 ttl |-> IF "ttl" \in DOMAIN metadata THEN metadata.ttl ELSE 0,
                 lastAccessed |-> -1]]

\* (mutant) an expired entry is returned like any other
getCacheNoExpiry(store, registry, key, t) ==
  IF key \notin DOMAIN store
  THEN [entry |-> Null, store |-> store, registry |-> registry]
  ELSE LET entry == [store[key] EXCEPT !.metadata.lastAccessed = t]
       IN [entry |-> entry,
           store |-> [store EXCEPT ![key] = entry],
           registry |-> registry]

\* (mutant) an access extends the life of the entry
getCacheSliding(store, registry, key, t) ==
  IF key \notin DOMAIN store
  THEN [entry |-> Null, store |-> store, registry |-> registry]
  ELSE IF store[key].metadata.expiresAt # 0 /\ store[key].metadata.expiresAt < t
  THEN [entry |-> Null,
        store |-> [k \in DOMAIN store \ {key} |-> store[k]],
        registry |-> [k \in DOMAIN registry \ {key} |-> registry[k]]]
  ELSE LET entry == [store[key] EXCEPT !.metadata.lastAccessed = t,
                                       !.metadata.expiresAt = t + AdapterCacheTTL]
       IN [entry |-> entry,
           store |-> [store EXCEPT ![key] = entry],
           registry |-> registry]

\* LocalStorageAdapter.getCache at time t: what it returns and what it leaves
\* in the store and the registry
getCache(store, registry, key, t) ==
  IF key \notin DOMAIN store
  THEN [entry |-> Null, store |-> store, registry |-> registry]
  ELSE IF store[key].metadata.expiresAt # 0 /\ store[key].metadata.expiresAt < t
  THEN [entry |-> Null,
        store |-> [k \in DOMAIN store \ {key} |-> store[k]],
        registry |-> [k \in DOMAIN registry \ {key} |-> registry[k]]]
  ELSE LET entry == [store[key] EXCEPT !.metadata.lastAccessed = t]
       IN [entry |-> entry,
           store |-> [store EXCEPT ![key] = entry],
           registry |-> registry]

\* executeQuery: "Check if cache is still valid"
CacheStillValid(metadata, cacheTTL, t) ==
  metadata.timestamp + (IF metadata.ttl # 0 THEN metadata.ttl ELSE cacheTTL) > t

\* the cache registry helpers: the record of key is written, deleted or
\* re-dated; `if (registry[key])` takes a missing record and a record 0 alike
\* (mutant) the record of a new entry is not written
addToCacheRegistryNever(registry, key, expiresAt) == registry

addToCacheRegistry(registry, key, expiresAt) ==
  [k \in DOMAIN registry \cup {key} |-> IF k = key THEN expiresAt ELSE registry[k]]

removeFromCacheRegistry(registry, key) ==
  IF key \in DOMAIN registry /\ registry[key] # 0
  THEN [k \in DOMAIN registry \ {key} |-> registry[k]]
  ELSE registry

updateCacheRegistryExpiry(registry, key, expiresAt) ==
  IF key \in DOMAIN registry /\ registry[key] # 0
  THEN [registry EXCEPT ![key] = expiresAt]
  ELSE registry

\* the checks on the key parameter of setCache, getCache and removeCache
ValidKey(key) == key # ""

\* LocalStorageAdapter.setCache, removeCache, updateCacheTTL and clearCache at
\* time t: whether the call resolves, and what it leaves behind
setCache(store, registry, key, data, metadata, t) ==
  IF ~ValidKey(key)
  THEN [ok |-> FALSE, store |-> store, registry |-> registry]
  ELSE LET entry == NewCacheEntry(data, metadata, t)
       IN [ok |-> TRUE,
           store |-> [k \in DOMAIN store \cup {key} |->
                        IF k = key THEN entry ELSE store[k]],
           registry |-> addToCacheRegistry(registry, key, entry.metadata.expiresAt)]

removeCache(store, registry, key) ==
  IF ~ValidKey(key)
  THEN [ok |-> FALSE, store |-> store, registry |-> registry]
  ELSE [ok |-> TRUE,
        store |-> [k \in DOMAIN store \ {key} |-> store[k]],
        registry |-> removeFromCacheRegistry(registry, key)]

updateCacheTTL(store, registry, key, newTTL, t) ==
  IF key \notin DOMAIN store
  THEN [ok |-> FALSE, store |-> store, registry |-> registry]
  ELSE [ok |-> TRUE,
        store |-> [store EXCEPT ![key].metadata.expiresAt = t + newTTL],
        registry |-> updateCacheRegistryExpiry(registry, key, t + newTTL)]

\* LocalStorageAdapter.cleanupExpiredCache at time t: every key whose registry
\* record is earlier than t is removed from the store and from the registry
cleanupExpiredCache(store, registry, t) ==
  LET expired == {k \in DOMAIN registry : registry[k] < t}
  IN [ok |-> TRUE,
      store |-> [k \in DOMAIN store \ expired |-> store[k]],
      registry |-> [k \in DOMAIN registry \ expired |-> registry[k]],
      removedCount |-> Cardinality(expired)]

\* cleanupExpiredCache when a statement inside its try block fails: the catch
\* logs and returns 0. The failure is the first one that can occur (nothing
\* is removed yet) or the last one, the write of the registry after the
\* expired entries have been removed from the store.
cleanupExpiredCacheFailing(store, registry, t, atRegistryWrite) ==
  [ok |-> TRUE,
   store |-> IF atRegistryWrite
             THEN cleanupExpiredCache(store, registry, t).store
             ELSE store,
   registry |-> registry,
   removedCount |-> 0]

\* --------------------------------------------------------- operation queue
\* an operation object that supplies a priority, and one that does not
Operation(type, query, priority) ==
  [type |-> type, query |-> query, priority |-> priority]

PlainOperation(type, query) == [type |-> type, query |-> query]

NoOperation == PlainOperation("", NoQuery)

\* LocalStorageAdapter.queueOperation: the parameter checks
ValidQueueArgs(operationId, operation) ==
  /\ operationId # ""
  /\ operation.type # ""
  /\ operation.query # NoQuery

\* LocalStorageAdapter.queueOperation: the entry that is stored; seq is a
\* history field that tells two entries stored under one id apart
NewQueueEntry(operation, t, s) ==
  [operation |-> operation,
   metadata |-> [timestamp |-> t,
                 status |-> "pending",
                 retryCount |-> 0,
                 priority |-> IF /\ "priority" \in DOMAIN operation
                                 /\ operation.priority # 0
                              THEN operation.priority ELSE 1],
   seq |-> s]

\* queueStore.setItem / queueStore.removeItem on a key-value store
\* (mutant) a key that is present keeps its value
setItemIfAbsent(store, key, value) ==
  [k \in DOMAIN store \cup {key} |->
     IF k = key /\ key \notin DOMAIN store THEN value ELSE store[k]]

setItem(store, key, value) ==
  [k \in DOMAIN store \cup {key} |-> IF k = key THEN value ELSE store[k]]

removeItem(store, key) ==
  [k \in DOMAIN store \ {key} |-> store[k]]

EmptyStore == [k \in {} |-> 0]

\* the comparator of getPendingOperations: negative when a goes first
compareOperations(a, b) ==
  IF a.metadata.priority # b.metadata.priority
  THEN b.metadata.priority - a.metadata.priority
  ELSE a.metadata.timestamp - b.metadata.timestamp

\* Array.prototype.sort with compareOperations (a stable insertion sort)
RECURSIVE insertSorted(_, _)
insertSorted(sorted, e) ==
  IF sorted = <<>> THEN <<e>>
  ELSE IF compareOperations(e, Head(sorted)) < 0
       THEN <<e>> \o sorted
       ELSE <<Head(sorted)>> \o insertSorted(Tail(sorted), e)

RECURSIVE sortOperations(_)
sortOperations(ops) ==
  IF ops = <<>> THEN <<>>
  ELSE insertSorted(sortOperations(SubSeq(ops, 1, Len(ops) - 1)), ops[Len(ops)])

\* queueStore.iterate visits the keys in key order
KeyOrder == <<"op1", "op2", "op3">> \o UuidOrder
OpIds == {"op1", "op2", "op3"}

RECURSIVE iterate(_, _)
iterate(store, k) ==
  IF k > Len(KeyOrder) THEN <<>>
  ELSE (IF KeyOrder[k] \in DOMAIN store
        THEN <<[operationId |-> KeyOrder[k],
                operation |-> store[KeyOrder[k]].operation,
                metadata |-> store[KeyOrder[k]].metadata,
                seq |-> store[KeyOrder[k]].seq]>>
        ELSE <<>>) \o iterate(store, k + 1)

\* LocalStorageAdapter.getPendingOperations() with the default options
getPendingOperations(store) == sortOperations(iterate(store, 1))


\* ------------------------------------------------------------------- state
VARIABLES
  isOnline,          \* SyncManager.isOnline
  isSyncing,         \* SyncManager.isSyncing, the busy flag
  syncInterval,      \* TRUE while the periodic timer of startSync is set
  queueStore,        \* LocalStorageAdapter.queueStore: operationId -> entry
  cacheStore,        \* LocalStorageAdapter.store: cache key -> entry
  cacheRegistry,     \* metaStore item 'cacheRegistry': cache key -> expiresAt
  gatewayOptions,    \* OfflineEnabledConnector.options
  now,               \* Date.now()
  calls,             \* the calls in flight: position, local variables, and
                     \* (history) what each emitted, asked and suffered
  throwingListener,  \* the event whose listener throws ("none": no such listener)
  connectivityEvent, \* the last of 'online' / 'offline' emitted
  seqCount,          \* history: number of queue entries stored
  started,           \* history: number of calls started
  faultCount,        \* history: number of backend I/O failures
  flips,             \* history: number of connectivity transitions
  adapterCall,       \* history: the last completed call of the cache API
  storesReady,       \* LocalStorageAdapter: _initializeStores() has run
  activeTimers,      \* number of setInterval timers of startSync not cleared
  lifecycle,         \* history: the last of handleOnline, handleOffline,
                     \* startSync, stopSync, destroy that was called
  accepted           \* history: the entries (seq) still in the queue whose
                     \* query the remote executor answered with 'success'

vars == <<isOnline, isSyncing, syncInterval, queueStore, cacheStore,
          cacheRegistry, gatewayOptions, now, calls, throwingListener,
          connectivityEvent, seqCount, started, faultCount, flips,
          adapterCall, storesReady, activeTimers, lifecycle, accepted>>

\* ------------------------------------------------------------ calls, events
NoValue == [kind |-> "none", operationId |-> "", data |-> "", cacheTimestamp |-> -1]

\* pass = 1 when the call set the busy flag; emitted, remote, faults and reads
\* are the history of the call
IdleCall ==
  [kind |-> "idle", pc |-> "idle", pass |-> 0, snapshot |-> <<>>,
   i |-> 0, completedCount |-> 0, ret |-> "none", error |-> "",
   value |-> NoValue, operationId |-> "", operation |-> NoOperation,
   query |-> NoQuery, options |-> EmptyStore, cacheKey |-> <<>>,
   timestamp |-> -1, wasOnline |-> FALSE, found |-> Null, lookedUp |-> -1,
   emitted |-> <<>>, remote |-> <<>>, faults |-> <<>>, reads |-> 0,
   early |-> FALSE, registry |-> EmptyStore]

\* What is recorded of a completed call of the cache API: the method, its
\* key, whether it resolved, the entry it returned, the ttl it was given, the
\* entry the store held before it, whether it directly follows a getCache of
\* the same key, and whether it changed the registry.
NoAdapterCall ==
  [op |-> "none", key |-> "", ok |-> TRUE, entry |-> Null, ttl |-> 0,
   found |-> Null, repeat |-> FALSE, registryChanged |-> FALSE,
   removedCount |-> 0]

Free(c) == calls[c].pc = "idle"

\* A call that has settled stays visible (pc = "done") for one step, in which
\* its caller takes the result; nothing else runs in between.
Settled == \E c \in Slots : calls[c].pc = "done"

\* a new call takes the first free slot
FirstFree(c) == ~Settled /\ Free(c) /\ \A d \in Slots : d < c => ~Free(d)

\* a step of a call in flight
At(c, pc) == ~Settled /\ calls[c].pc = pc

Event(name, operationId, total, completed) ==
  [name |-> name, operationId |-> operationId,
   total |-> total, completed |-> completed]

\* EventEmitter.emit: the listeners run synchronously inside emit, and an
\* exception of a listener propagates to the emitting statement
Throws(name) == throwingListener = name

\* The code of sync() works on a context x: the field of the SyncManager it
\* assigns (isSyncing), the queue store and the call s it runs in.
Emit(x, e) == [x EXCEPT !.s.emitted = Append(@, e)]

Settle(x, ret, error) ==
  [x EXCEPT !.s.pc = "done", !.s.ret = ret, !.s.error = error]

\* What the caller of sync() does when the promise of sync() settles:
\*   a direct call           nothing
\*   the timer callback      sync().catch(error => emit('syncError'))
\*   queueOperation          try { await this.sync() } catch (error) { }
\*   executeQuery (write)    returns {status: 'queued', operationId}
SyncReturn(x, ret) ==
  CASE x.s.kind = "sync" ->
         Settle(x, ret, IF ret = "rejected" THEN "listener" ELSE "")
    [] x.s.kind = "timer" ->
         IF ret = "rejected"
         THEN Settle(Emit(x, Event("syncError", "", 0, 0)), "resolved", "")
         ELSE Settle(x, "resolved", "")
    [] x.s.kind = "queueOperation" ->
         Settle(x, "resolved", "")
    [] OTHER ->
         [Settle(x, "resolved", "") EXCEPT
            !.s.value = [NoValue EXCEPT !.kind = "queued",
                                        !.operationId = x.s.operationId]]

\* sync(): catch (error) { emit('syncError') } finally { isSyncing = false }
\* (mutant) the error of the pass is thrown on to the caller of sync()
OuterCatchRethrow(x) == SyncReturn([x EXCEPT !.isSyncing = FALSE], "rejected")

OuterCatch(x) ==
  LET x1 == Emit(x, Event("syncError", "", 0, 0))
      x2 == [x1 EXCEPT !.isSyncing = FALSE]
  IN SyncReturn(x2, IF Throws("syncError") THEN "rejected" ELSE "resolved")

\* sync(): emit('syncComplete', {operationsSynced}); finally
SyncComplete(x) ==
  LET x1 == Emit(x, Event("syncComplete", "", 0, x.s.completedCount))
  IN IF Throws("syncComplete")
     THEN OuterCatch(x1)
     ELSE SyncReturn([x1 EXCEPT !.isSyncing = FALSE], "resolved")

SupportedType(type) == type \in {"INSERT", "UPDATE", "DELETE"}

InvalidFormat(operation) == operation.type = "" \/ operation.query = NoQuery

\* (mutant) the catch block counts a retry in the stored metadata
ConflictEffectRetry(store, failed) ==
  IF failed.operationId \in DOMAIN store
  THEN [store EXCEPT ![failed.operationId].metadata.retryCount = @ + 1]
  ELSE store

\* what the catch block of one operation does to the queue: nothing
ConflictEffect(store, failed) == store

\* sync(): the for loop from operation i up to the next await.
\* InnerCatch is the catch block of one operation.
RECURSIVE RunLoop(_)
RECURSIVE InnerCatch(_)
\* (mutant) the failure of one operation ends the pass
InnerCatchAbort(x) ==
  OuterCatch(Emit(x, Event("syncConflict", x.s.snapshot[x.s.i].operationId, 0, 0)))

\* (mutant) the loop ends when the coordinator has gone offline
RunLoopWhileOnline(x) ==
  IF x.s.i > Len(x.s.snapshot) \/ ~isOnline
  THEN SyncComplete(x)
  ELSE LET op == x.s.snapshot[x.s.i]
       IN IF InvalidFormat(op.operation) \/ ~SupportedType(op.operation.type)
          THEN InnerCatch(x)
          ELSE [x EXCEPT !.s.pc = "awaitRemote"]

\* (mutant) an operation that the server did not accept is sent again
InnerCatchRetry(x) ==
  LET op == x.s.snapshot[x.s.i]
      x1 == Emit(x, Event("syncConflict", op.operationId, 0, 0))
  IN IF InvalidFormat(op.operation) \/ ~SupportedType(op.operation.type)
     THEN RunLoop([x1 EXCEPT !.s.i = @ + 1])
     ELSE [x1 EXCEPT !.s.pc = "awaitRemote"]

InnerCatch(x) ==
  LET op == x.s.snapshot[x.s.i]
      x1 == Emit([x EXCEPT !.queueStore = ConflictEffect(@, op)],
                 Event("syncConflict", op.operationId, 0, 0))
  IN IF Throws("syncConflict")
     THEN OuterCatch(x1)
     ELSE RunLoop([x1 EXCEPT !.s.i = @ + 1])

RunLoop(x) ==
  IF x.s.i > Len(x.s.snapshot)
  THEN SyncComplete(x)
  ELSE LET op == x.s.snapshot[x.s.i]
       IN IF InvalidFormat(op.operation) \/ ~SupportedType(op.operation.type)
          THEN InnerCatch(x)
          ELSE [x EXCEPT !.s.pc = "awaitRemote"]

\* (mutant) the busy flag is not consulted
BusyGuardOff(x) == FALSE

\* sync(): from the entry to the first await
BusyGuard(x) == x.isSyncing

\* (mutant) a pass is started without looking at the connectivity
OfflineGuardOff == FALSE

\* sync(): if (!this.isOnline)
OfflineGuard == ~isOnline

SyncEntry(x) ==
  IF OfflineGuard
  THEN SyncReturn(Emit(x, Event("syncSkipped", "", 0, 0)),
                  IF Throws("syncSkipped") THEN "rejected" ELSE "resolved")
  ELSE IF BusyGuard(x)
  THEN SyncReturn(x, "resolved")
  ELSE LET x1 == Emit([x EXCEPT !.isSyncing = TRUE, !.s.pass = 1],
                      Event("syncStart", "", 0, 0))
       IN IF Throws("syncStart")
          THEN SyncReturn(x1, "rejected")
          ELSE [x1 EXCEPT !.s.pc = "awaitPending"]

\* sync(): after getPendingOperations() resolved with pending
PendingResolved(x, pending) ==
  IF Len(pending) = 0
  THEN SyncComplete(x)
  ELSE LET x1 == Emit([x EXCEPT !.s.snapshot = pending, !.s.i = 1,
                                !.s.completedCount = 0],
                      Event("syncProgress", "", Len(pending), 0))
       IN IF Throws("syncProgress") THEN OuterCatch(x1) ELSE RunLoop(x1)

\* (mutant) any response counts as an acceptance
SuccessOracleAnyResponse(outcome) == outcome \in {"success", "rejected"}

\* sync(): after connector.executeQuery(operation.query) settled
SuccessOracle(outcome) == outcome = "success"

RemoteResolved(x, outcome) ==
  IF SuccessOracle(outcome)
  THEN [x EXCEPT !.s.pc = "awaitRemove"]
  ELSE InnerCatch(x)

\* sync(): after removeOperation(operationId) settled
RemoveResolved(x, ok) ==
  IF ok
  THEN LET op == x.s.snapshot[x.s.i]
           x1 == Emit([x EXCEPT !.queueStore = removeItem(@, op.operationId),
                                !.s.completedCount = @ + 1],
                      Event("syncProgress", op.operationId,
                            Len(x.s.snapshot), x.s.completedCount + 1))
       IN IF Throws("syncProgress")
          THEN InnerCatch(x1)
          ELSE RunLoop([x1 EXCEPT !.s.i = @ + 1])
  ELSE InnerCatch(x)

Context(c) ==
  [isSyncing |-> isSyncing, queueStore |-> queueStore, s |-> calls[c],
   accepted |-> accepted]

\* the assignments of a context to the variables
Commit(c, x) ==
  /\ isSyncing' = x.isSyncing
  /\ queueStore' = x.queueStore
  /\ calls' = [calls EXCEPT ![c] = x.s]
  /\ accepted' = {n \in x.accepted :
                    \E id \in DOMAIN x.queueStore : x.queueStore[id].seq = n}

NewCall(kind) ==
  [IdleCall EXCEPT !.kind = kind, !.ret = "pending", !.wasOnline = isOnline]

\* --------------------------------------------------- history of the inputs
RemoteAnswer(operationId, query, outcome) ==
  [operationId |-> operationId, query |-> query, outcome |-> outcome]

Fault(at, operationId) == [at |-> at, operationId |-> operationId]

AskRemote(x, operationId, query, outcome) ==
  [x EXCEPT !.s.remote = Append(@, RemoteAnswer(operationId, query, outcome))]

Suffer(x, at, operationId) ==
  [x EXCEPT !.s.faults = Append(@, Fault(at, operationId))]

\* what connector.executeQuery can give back: a response with status
\* 'success', a response with another status, no response body, an exception
RemoteOutcomes == {"success", "rejected", "none", "error"}

CanFail == faultCount < MaxFaults

\* ------------------------------------------------- actions: SyncManager API
\* sync() called by the application
CallSync(c) ==
  /\ FirstFree(c) /\ started < MaxCalls
  /\ started' = started + 1
  /\ Commit(c, SyncEntry([Context(c) EXCEPT !.s = NewCall("sync")]))
  /\ UNCHANGED <<storesReady, adapterCall, isOnline, syncInterval, activeTimers, lifecycle, cacheStore, cacheRegistry,
                 gatewayOptions, now, throwingListener, connectivityEvent,
                 seqCount, faultCount, flips>>

\* the callback of setInterval in startSync
TimerTick(c) ==
  /\ activeTimers > 0
  /\ FirstFree(c) /\ started < MaxCalls
  /\ isOnline /\ ~isSyncing
  /\ started' = started + 1
  /\ Commit(c, SyncEntry([Context(c) EXCEPT !.s = NewCall("timer")]))
  /\ UNCHANGED <<storesReady, adapterCall, isOnline, syncInterval, activeTimers, lifecycle, cacheStore, cacheRegistry,
                 gatewayOptions, now, throwingListener, connectivityEvent,
                 seqCount, faultCount, flips>>

\* SyncManager.queueOperation(operationId, operation) up to queueStore.setItem
CallQueueOperation(c, operationId, operation) ==
  /\ FirstFree(c) /\ started < MaxCalls
  /\ started' = started + 1
  /\ calls' = [calls EXCEPT ![c] =
       IF ValidQueueArgs(operationId, operation)
       THEN [NewCall("queueOperation") EXCEPT
               !.pc = "awaitQueueStore", !.operationId = operationId,
               !.operation = operation, !.timestamp = now]
       ELSE [NewCall("queueOperation") EXCEPT
               !.pc = "done", !.ret = "rejected", !.error = "validation",
               !.operationId = operationId, !.operation = operation]]
  /\ UNCHANGED <<accepted, storesReady, adapterCall, isOnline, isSyncing, syncInterval, activeTimers, lifecycle, queueStore, cacheStore,
                 cacheRegistry, gatewayOptions, now, throwingListener,
                 connectivityEvent, seqCount, faultCount, flips>>

\* (mutant) the immediate sync() is invoked whatever the connectivity
AfterQueuedSyncAlways(x, s) ==
  SyncEntry(Emit([x EXCEPT !.queueStore =
                    setItem(@, x.s.operationId,
                            NewQueueEntry(x.s.operation, x.s.timestamp, s))],
                 Event("operationQueued", x.s.operationId, 0, 0)))

\* queueStore.setItem settles; then emit('operationQueued') and, when online,
\* the immediate sync()
AfterQueued(x, s) ==
  LET x1 == Emit([x EXCEPT !.queueStore =
                     setItem(@, x.s.operationId,
                             NewQueueEntry(x.s.operation, x.s.timestamp, s))],
                 Event("operationQueued", x.s.operationId, 0, 0))
  IN IF Throws("operationQueued")
     THEN Settle(x1, "rejected", "listener")
     ELSE IF isOnline THEN SyncEntry(x1) ELSE SyncReturn(x1, "resolved")

QueueStoreResolves(c) ==
  /\ At(c, "awaitQueueStore")
  /\ seqCount' = seqCount + 1
  /\ Commit(c, AfterQueued(Context(c), seqCount + 1))
  /\ UNCHANGED <<storesReady, adapterCall, isOnline, syncInterval, activeTimers, lifecycle, cacheStore, cacheRegistry,
                 gatewayOptions, now, throwingListener, connectivityEvent,
                 started, faultCount, flips>>

QueueStoreFails(c) ==
  /\ At(c, "awaitQueueStore")
  /\ CanFail
  /\ faultCount' = faultCount + 1
  /\ Commit(c, Settle(Suffer(Context(c), "queueOperation", calls[c].operationId),
                      "rejected", "storage"))
  /\ UNCHANGED <<storesReady, adapterCall, isOnline, syncInterval, activeTimers, lifecycle, cacheStore,
                 cacheRegistry, gatewayOptions, now, throwingListener,
                 connectivityEvent, seqCount, started, flips>>

\* ---------------------------------------------- actions: steps of a pass
PendingResolves(c) ==
  /\ At(c, "awaitPending")
  /\ Commit(c, PendingResolved([Context(c) EXCEPT !.s.reads = @ + 1],
                               getPendingOperations(queueStore)))
  /\ UNCHANGED <<storesReady, adapterCall, isOnline, syncInterval, activeTimers, lifecycle, cacheStore, cacheRegistry,
                 gatewayOptions, now, throwingListener, connectivityEvent,
                 seqCount, started, faultCount, flips>>

PendingFails(c) ==
  /\ At(c, "awaitPending")
  /\ CanFail
  /\ faultCount' = faultCount + 1
  /\ Commit(c, OuterCatch(Suffer(Context(c), "getPendingOperations", "")))
  /\ UNCHANGED <<storesReady, adapterCall, isOnline, syncInterval, activeTimers, lifecycle, cacheStore, cacheRegistry,
                 gatewayOptions, now, throwingListener, connectivityEvent,
                 seqCount, started, flips>>

RemoteResponds(c, outcome) ==
  /\ At(c, "awaitRemote")
  /\ LET op == calls[c].snapshot[calls[c].i]
         x == [Context(c) EXCEPT
                 !.accepted = IF outcome = "success"
                              THEN @ \cup {op.seq} ELSE @]
     IN Commit(c, RemoteResolved(AskRemote(x, op.operationId,
                                           op.operation.query, outcome),
                                 outcome))
  /\ UNCHANGED <<storesReady, adapterCall, isOnline, syncInterval, activeTimers, lifecycle, cacheStore, cacheRegistry,
                 gatewayOptions, now, throwingListener, connectivityEvent,
                 seqCount, started, faultCount, flips>>

RemoveResolves(c) ==
  /\ At(c, "awaitRemove")
  /\ Commit(c, RemoveResolved(Context(c), TRUE))
  /\ UNCHANGED <<storesReady, adapterCall, isOnline, syncInterval, activeTimers, lifecycle, cacheStore, cacheRegistry,
                 gatewayOptions, now, throwingListener, connectivityEvent,
                 seqCount, started, faultCount, flips>>

RemoveFails(c) ==
  /\ At(c, "awaitRemove")
  /\ CanFail
  /\ faultCount' = faultCount + 1
  /\ Commit(c, RemoveResolved(
                 Suffer(Context(c), "removeOperation",
                        calls[c].snapshot[calls[c].i].operationId), FALSE))
  /\ UNCHANGED <<storesReady, adapterCall, isOnline, syncInterval, activeTimers, lifecycle, cacheStore, cacheRegistry,
                 gatewayOptions, now, throwingListener, connectivityEvent,
                 seqCount, started, flips>>

\* ----------------------------------- actions: OfflineEnabledConnector API
\* what connector.executeQuery gives back for a read: a result or an exception
RemoteData == {"d1", "d2"}

Reject(call, error) == [call EXCEPT !.pc = "done", !.ret = "rejected", !.error = error]

Resolve(call, kind, data, cacheTimestamp) ==
  [call EXCEPT !.pc = "done", !.ret = "resolved",
               !.value = [kind |-> kind, operationId |-> "", data |-> data,
                          cacheTimestamp |-> cacheTimestamp]]

\* executeQuery: const combinedOptions = { ...this.options, ...options }
combinedOptions(options) ==
  [k \in DOMAIN gatewayOptions |->
     IF k \in DOMAIN options THEN options[k] ELSE gatewayOptions[k]]

\* (mutant) a read that may not be cached is sent to the server also offline
RouteOfNonCacheableDirect(isReadOnly, cacheEnabled, online) ==
  CASE isReadOnly /\ cacheEnabled -> IF online THEN "remoteRead" ELSE "cacheRead"
    [] ~isReadOnly -> IF online THEN "direct" ELSE "queue"
    [] OTHER -> "direct"

\* (mutant) a write is queued whatever the connectivity
RouteOfAlwaysQueue(isReadOnly, cacheEnabled, online) ==
  CASE isReadOnly /\ cacheEnabled -> IF online THEN "remoteRead" ELSE "cacheRead"
    [] ~isReadOnly -> "queue"
    [] isReadOnly /\ ~cacheEnabled /\ ~online -> "nonCacheableOffline"
    [] OTHER -> "direct"

\* executeQuery: the branch taken, by the if / else-if chain of the method
RouteOf(isReadOnly, cacheEnabled, online) ==
  CASE isReadOnly /\ cacheEnabled -> IF online THEN "remoteRead" ELSE "cacheRead"
    [] ~isReadOnly -> IF online THEN "direct" ELSE "queue"
    [] isReadOnly /\ ~cacheEnabled /\ ~online -> "nonCacheableOffline"
    [] OTHER -> "direct"

\* executeQuery(query, options) up to its first await
ExecuteQueryEntry(query, options, uuid) ==
  LET call == [NewCall("executeQuery") EXCEPT !.query = query, !.options = options]
      route == RouteOf(isReadOnlyQuery(query),
                       combinedOptions(options).cacheEnabled, isOnline)
  IN CASE route = "remoteRead" ->
            [call EXCEPT !.cacheKey = generateCacheKey(query, options),
                         !.pc = "awaitRemoteRead"]
       [] route = "cacheRead" ->
            [call EXCEPT !.cacheKey = generateCacheKey(query, options),
                         !.pc = "awaitGetCache"]
       [] route = "queue" ->
            LET operation == PlainOperation(getOperationType(query), query)
            IN IF ValidQueueArgs(uuid, operation)
               THEN [call EXCEPT !.pc = "awaitQueueStore", !.operationId = uuid,
                                 !.operation = operation, !.timestamp = now]
               ELSE Reject([call EXCEPT !.operationId = uuid,
                                        !.operation = operation], "validation")
       [] route = "nonCacheableOffline" ->
            Reject(call, "nonCacheableOffline")
       [] OTHER ->
            [call EXCEPT !.pc = "awaitRemoteDirect"]

\* a call of executeQuery(query, options)
CallExecuteQueryOptions(c, query, options) ==
  /\ FirstFree(c) /\ started < MaxCalls
  /\ started' = started + 1
  /\ calls' = [calls EXCEPT ![c] = ExecuteQueryEntry(query, options, randomUUID(started + 1))]
  /\ UNCHANGED <<accepted, storesReady, adapterCall, isOnline, isSyncing, syncInterval, activeTimers, lifecycle, queueStore, cacheStore,
                 cacheRegistry, gatewayOptions, now, throwingListener,
                 connectivityEvent, seqCount, faultCount, flips>>

\* a call of executeQuery(query)
CallExecuteQuery(c, query) == CallExecuteQueryOptions(c, query, <<>>)

\* (mutant) the catch block falls back to the cache whatever the connectivity
ReadCatchAlwaysFallback(call, error) ==
  [call EXCEPT !.pc = "awaitGetCacheFallback", !.error = error]

\* executeQuery: the catch block of the cached read
ReadCatch(call, error) ==
  IF isOnline
  THEN Reject(call, error)
  ELSE [call EXCEPT !.pc = "awaitGetCacheFallback", !.error = error]

\* executeQuery: the remote read settled
AfterRemoteRead(call, outcome) ==
  LET asked == [call EXCEPT !.remote = Append(@, RemoteAnswer("", call.query, outcome))]
  IN IF outcome = "error"
     THEN ReadCatch(asked, "remote")
     ELSE [asked EXCEPT !.pc = "awaitSetCache", !.value.data = outcome,
                        !.timestamp = now]

RemoteReadResponds(c, outcome) ==
  /\ At(c, "awaitRemoteRead")
  /\ calls' = [calls EXCEPT ![c] = AfterRemoteRead(calls[c], outcome)]
  /\ UNCHANGED <<accepted, storesReady, adapterCall, isOnline, isSyncing, syncInterval, activeTimers, lifecycle, queueStore, cacheStore,
                 cacheRegistry, gatewayOptions, now, throwingListener,
                 connectivityEvent, seqCount, started, faultCount, flips>>

\* executeQuery: setCache rejected
AfterSetCacheFailed(call) == ReadCatch(call, "storage")

\* setCache settled: the entry and its registry record are written, and
\* executeQuery returns the remote result
SetCacheResolves(c) ==
  /\ At(c, "awaitSetCache")
  /\ LET entry == NewCacheEntry(calls[c].value.data,
                                [timestamp |-> calls[c].timestamp,
                                 ttl |-> combinedOptions(calls[c].options).cacheTTL],
                                calls[c].timestamp)
     IN /\ cacheStore' = setItem(cacheStore, calls[c].cacheKey, entry)
        /\ cacheRegistry' = setItem(cacheRegistry, calls[c].cacheKey,
                                    entry.metadata.expiresAt)
  /\ calls' = [calls EXCEPT ![c] = Resolve(calls[c], "remote", calls[c].value.data, -1)]
  /\ UNCHANGED <<accepted, storesReady, adapterCall, isOnline, isSyncing, syncInterval, activeTimers, lifecycle, queueStore,
                 gatewayOptions, now, throwingListener,
                 connectivityEvent, seqCount, started, faultCount, flips>>

SetCacheFails(c) ==
  /\ At(c, "awaitSetCache")
  /\ CanFail
  /\ faultCount' = faultCount + 1
  /\ calls' = [calls EXCEPT ![c] =
       AfterSetCacheFailed([calls[c] EXCEPT !.faults = Append(@, Fault("setCache", ""))])]
  /\ UNCHANGED <<accepted, storesReady, adapterCall, isOnline, isSyncing, syncInterval, activeTimers, lifecycle, queueStore, cacheStore,
                 cacheRegistry, gatewayOptions, now, throwingListener,
                 connectivityEvent, seqCount, started, flips>>

\* executeQuery offline: the first getCache settled with cachedData
AfterGetCache(call, cachedData) ==
  IF cachedData # Null
       /\ CacheStillValid(cachedData.metadata,
                          combinedOptions(call.options).cacheTTL, now)
  THEN Resolve(call, "cached", cachedData.data, -1)
  ELSE ReadCatch(call, "offlineNoCache")

GetCacheResolves(c) ==
  /\ At(c, "awaitGetCache")
  /\ LET r == getCache(cacheStore, cacheRegistry, calls[c].cacheKey, now)
         found == IF calls[c].cacheKey \in DOMAIN cacheStore
                  THEN cacheStore[calls[c].cacheKey] ELSE Null
     IN /\ cacheStore' = r.store
        /\ cacheRegistry' = r.registry
        /\ calls' = [calls EXCEPT ![c] =
              AfterGetCache([calls[c] EXCEPT !.found = found, !.lookedUp = now],
                            r.entry)]
  /\ UNCHANGED <<accepted, storesReady, adapterCall, isOnline, isSyncing, syncInterval, activeTimers, lifecycle, queueStore,
                 gatewayOptions, now, throwingListener,
                 connectivityEvent, seqCount, started, faultCount, flips>>

\* executeQuery: the getCache of the catch block settled with cachedData
AfterGetCacheFallback(call, cachedData) ==
  IF cachedData # Null
  THEN Resolve(call, "stale", cachedData.data, cachedData.metadata.timestamp)
  ELSE Reject(call, call.error)

GetCacheFallbackResolves(c) ==
  /\ At(c, "awaitGetCacheFallback")
  /\ LET r == getCache(cacheStore, cacheRegistry, calls[c].cacheKey, now)
     IN /\ cacheStore' = r.store
        /\ cacheRegistry' = r.registry
        /\ calls' = [calls EXCEPT ![c] = AfterGetCacheFallback(calls[c], r.entry)]
  /\ UNCHANGED <<accepted, storesReady, adapterCall, isOnline, isSyncing, syncInterval, activeTimers, lifecycle, queueStore,
                 gatewayOptions, now, throwingListener,
                 connectivityEvent, seqCount, started, faultCount, flips>>

\* executeQuery: return this.connector.executeQuery(query, options)
RemoteDirectResponds(c, outcome) ==
  /\ At(c, "awaitRemoteDirect")
  /\ calls' = [calls EXCEPT ![c] =
       LET asked == [calls[c] EXCEPT
                       !.remote = Append(@, RemoteAnswer("", calls[c].query, outcome))]
       IN IF outcome = "error"
          THEN Reject(asked, "remote")
          ELSE Resolve(asked, "remote", outcome, -1)]
  /\ UNCHANGED <<accepted, storesReady, adapterCall, isOnline, isSyncing, syncInterval, activeTimers, lifecycle, queueStore, cacheStore,
                 cacheRegistry, gatewayOptions, now, throwingListener,
                 connectivityEvent, seqCount, started, faultCount, flips>>

\* ------------------------------------------------ actions: the environment
\* the caller takes the result of a settled call
Return(c) ==
  /\ calls[c].pc = "done"
  /\ calls' = [calls EXCEPT ![c] = IdleCall]
  /\ UNCHANGED <<accepted, storesReady, adapterCall, isOnline, isSyncing, syncInterval, activeTimers, lifecycle, queueStore, cacheStore,
                 cacheRegistry, gatewayOptions, now, throwingListener,
                 connectivityEvent, seqCount, started, faultCount, flips>>

\* the periodic timer: the field syncInterval and the timers that run
Timer == [syncInterval |-> syncInterval, activeTimers |-> activeTimers]

\* stopSync(): if (this.syncInterval) { clearInterval; syncInterval = null }
stopSync(t) ==
  IF t.syncInterval
  THEN [syncInterval |-> FALSE, activeTimers |-> t.activeTimers - 1]
  ELSE t

\* (mutant) startSync sets a new timer without clearing the one it has
startSyncNoClear(t) ==
  [syncInterval |-> TRUE, activeTimers |-> t.activeTimers + 1]

\* startSync(): clears an existing timer, then setInterval
startSync(t) ==
  [syncInterval |-> TRUE, activeTimers |-> stopSync(t).activeTimers + 1]

SetTimer(t, name) ==
  /\ syncInterval' = t.syncInterval
  /\ activeTimers' = t.activeTimers
  /\ lifecycle' = name

\* startSync(), stopSync() and destroy() called by the application
CallStartSync ==
  /\ ~Settled
  /\ SetTimer(startSync(Timer), "startSync")
  /\ UNCHANGED <<accepted, storesReady, adapterCall, isOnline, isSyncing, queueStore,
                 cacheStore, cacheRegistry, gatewayOptions, now, calls,
                 throwingListener, connectivityEvent, seqCount, started,
                 faultCount, flips>>

CallStopSync ==
  /\ ~Settled
  /\ SetTimer(stopSync(Timer), "stopSync")
  /\ UNCHANGED <<accepted, storesReady, adapterCall, isOnline, isSyncing, queueStore,
                 cacheStore, cacheRegistry, gatewayOptions, now, calls,
                 throwingListener, connectivityEvent, seqCount, started,
                 faultCount, flips>>

CallDestroy ==
  /\ ~Settled
  /\ SetTimer(stopSync(Timer), "destroy")
  /\ UNCHANGED <<accepted, storesReady, adapterCall, isOnline, isSyncing, queueStore,
                 cacheStore, cacheRegistry, gatewayOptions, now, calls,
                 throwingListener, connectivityEvent, seqCount, started,
                 faultCount, flips>>

\* handleOnline(): isOnline = true; emit('online'); startSync()
HandleOnline ==
  /\ ~Settled
  /\ flips < MaxFlips
  /\ flips' = flips + 1
  /\ isOnline' = TRUE
  /\ connectivityEvent' = "online"
  /\ SetTimer(startSync(Timer), "handleOnline")
  /\ UNCHANGED <<accepted, storesReady, adapterCall, isSyncing, queueStore, cacheStore, cacheRegistry,
                 gatewayOptions, now, calls, throwingListener,
                 seqCount, started, faultCount>>

\* handleOffline(): isOnline = false; emit('offline'); stopSync()
HandleOffline ==
  /\ ~Settled
  /\ flips < MaxFlips
  /\ flips' = flips + 1
  /\ isOnline' = FALSE
  /\ connectivityEvent' = "offline"
  /\ SetTimer(stopSync(Timer), "handleOffline")
  /\ UNCHANGED <<accepted, storesReady, adapterCall, isSyncing, queueStore, cacheStore, cacheRegistry,
                 gatewayOptions, now, calls, throwingListener,
                 seqCount, started, faultCount>>

\* time passes
ClockTick ==
  /\ ~Settled
  /\ now < MaxTime
  /\ now' = now + 1
  /\ UNCHANGED <<accepted, storesReady, adapterCall, isOnline, isSyncing, syncInterval, activeTimers, lifecycle, queueStore, cacheStore,
                 cacheRegistry, gatewayOptions, calls, throwingListener,
                 connectivityEvent, seqCount, started, faultCount, flips>>

\* ----------------------------------- actions: LocalStorageAdapter cache API
\* Each call of the cache API runs to completion before the next one starts.
CacheKeys == {"k1", "k2"}

\* a ttl longer than the adapter's default
LongTTL == 2

\* the metadata arguments of setCache: none, a ttl, and what the gateway
\* passes for a result obtained at time 0
CacheMetadata == {<<>>, [ttl |-> LongTTL], [timestamp |-> 0, ttl |-> LongTTL]}

Stored(key) == IF key \in DOMAIN cacheStore THEN cacheStore[key] ELSE Null

AdapterReturns(op, key, r, entry, ttl) ==
  /\ started < MaxAdapterCalls
  /\ started' = started + 1
  /\ cacheStore' = r.store
  /\ cacheRegistry' = r.registry
  /\ adapterCall' =
       [op |-> op, key |-> key, ok |-> r.ok, entry |-> entry, ttl |-> ttl,
        found |-> Stored(key),
        repeat |-> op = "getCache" /\ adapterCall.op = "getCache"
                     /\ adapterCall.key = key,
        registryChanged |-> r.registry # cacheRegistry,
        removedCount |-> IF "removedCount" \in DOMAIN r
                         THEN r.removedCount ELSE 0]

SetCache(key, data, metadata) ==
  /\ AdapterReturns("setCache", key,
                    setCache(cacheStore, cacheRegistry, key, data, metadata, now),
                    Null, 0)
  /\ UNCHANGED <<accepted, storesReady, isOnline, isSyncing, syncInterval, activeTimers, lifecycle, queueStore, gatewayOptions,
                 now, calls, throwingListener, connectivityEvent, seqCount,
                 faultCount, flips>>

\* setCache: store.setItem succeeded and the write of the registry failed
SetCacheRegistryFails(key, data, metadata) ==
  /\ ValidKey(key)
  /\ CanFail
  /\ faultCount' = faultCount + 1
  /\ AdapterReturns("setCache", key,
                    [ok |-> FALSE,
                     store |-> setCache(cacheStore, cacheRegistry, key, data,
                                        metadata, now).store,
                     registry |-> cacheRegistry],
                    Null, 0)
  /\ UNCHANGED <<accepted, storesReady, isOnline, isSyncing, syncInterval, activeTimers, lifecycle, queueStore, gatewayOptions,
                 now, calls, throwingListener, connectivityEvent, seqCount,
                 flips>>

GetCache(key) ==
  /\ LET r == IF ValidKey(key)
              THEN getCache(cacheStore, cacheRegistry, key, now)
              ELSE [entry |-> Null, store |-> cacheStore, registry |-> cacheRegistry]
     IN AdapterReturns("getCache", key,
                       [ok |-> ValidKey(key), store |-> r.store,
                        registry |-> r.registry],
                       r.entry, 0)
  /\ UNCHANGED <<accepted, storesReady, isOnline, isSyncing, syncInterval, activeTimers, lifecycle, queueStore, gatewayOptions,
                 now, calls, throwingListener, connectivityEvent, seqCount,
                 faultCount, flips>>

RemoveCache(key) ==
  /\ AdapterReturns("removeCache", key,
                    removeCache(cacheStore, cacheRegistry, key), Null, 0)
  /\ UNCHANGED <<accepted, storesReady, isOnline, isSyncing, syncInterval, activeTimers, lifecycle, queueStore, gatewayOptions,
                 now, calls, throwingListener, connectivityEvent, seqCount,
                 faultCount, flips>>

UpdateCacheTTL(key, newTTL) ==
  /\ AdapterReturns("updateCacheTTL", key,
                    updateCacheTTL(cacheStore, cacheRegistry, key, newTTL, now),
                    Null, newTTL)
  /\ UNCHANGED <<accepted, storesReady, isOnline, isSyncing, syncInterval, activeTimers, lifecycle, queueStore, gatewayOptions,
                 now, calls, throwingListener, connectivityEvent, seqCount,
                 faultCount, flips>>

\* clearCache(): store.clear(), metaStore.removeItem('cacheRegistry')
ClearCache ==
  /\ AdapterReturns("clearCache", "",
                    [ok |-> TRUE, store |-> EmptyStore, registry |-> EmptyStore],
                    Null, 0)
  /\ UNCHANGED <<accepted, storesReady, isOnline, isSyncing, syncInterval, activeTimers, lifecycle, queueStore, gatewayOptions,
                 now, calls, throwingListener, connectivityEvent, seqCount,
                 faultCount, flips>>

CleanupExpiredCache ==
  /\ AdapterReturns("cleanupExpiredCache", "",
                    cleanupExpiredCache(cacheStore, cacheRegistry, now), Null, 0)
  /\ UNCHANGED <<accepted, storesReady, isOnline, isSyncing, syncInterval, activeTimers, lifecycle, queueStore, gatewayOptions,
                 now, calls, throwingListener, connectivityEvent, seqCount,
                 faultCount, flips>>

\* the registry write is reached only when removedCount > 0
CleanupExpiredCacheFails(atRegistryWrite) ==
  /\ CanFail
  /\ atRegistryWrite =>
       cleanupExpiredCache(cacheStore, cacheRegistry, now).removedCount > 0
  /\ faultCount' = faultCount + 1
  /\ AdapterReturns("cleanupExpiredCache", "",
                    cleanupExpiredCacheFailing(cacheStore, cacheRegistry, now,
                                               atRegistryWrite),
                    Null, 0)
  /\ UNCHANGED <<accepted, storesReady, isOnline, isSyncing, syncInterval, activeTimers,
                 lifecycle, queueStore, gatewayOptions, now, calls,
                 throwingListener, connectivityEvent, seqCount, flips>>

\* ---------------------------------------- actions: clearQueryCache
\* the default of the options parameter of clearQueryCache: null, which
\* JSON.stringify writes out as null and not as an object
NullOptions == [null |-> TRUE]

\* clearQueryCache(query, options) up to the await; query = NoQuery stands
\* for a call without a query
CallClearQueryCache(c, query, options) ==
  /\ FirstFree(c) /\ started < MaxCalls
  /\ started' = started + 1
  /\ calls' = [calls EXCEPT ![c] =
       [NewCall("clearQueryCache") EXCEPT
          !.pc = "awaitClear", !.query = query, !.options = options,
          !.cacheKey = IF query # NoQuery
                       THEN generateCacheKey(query, options) ELSE <<>>]]
  /\ UNCHANGED <<accepted, storesReady, adapterCall, isOnline, isSyncing, syncInterval, activeTimers, lifecycle,
                 queueStore, cacheStore, cacheRegistry, gatewayOptions, now,
                 throwingListener, connectivityEvent, seqCount, faultCount,
                 flips>>

\* removeCache(cacheKey), or clearCache(), settled
ClearResolves(c) ==
  /\ At(c, "awaitClear")
  /\ IF calls[c].query # NoQuery
     THEN /\ cacheStore' = removeItem(cacheStore, calls[c].cacheKey)
          /\ cacheRegistry' = removeFromCacheRegistry(cacheRegistry, calls[c].cacheKey)
     ELSE /\ cacheStore' = EmptyStore
          /\ cacheRegistry' = EmptyStore
  /\ calls' = [calls EXCEPT ![c] = [@ EXCEPT !.pc = "done", !.ret = "resolved"]]
  /\ UNCHANGED <<accepted, storesReady, adapterCall, isOnline, isSyncing, syncInterval, activeTimers, lifecycle,
                 queueStore, gatewayOptions, now, throwingListener,
                 connectivityEvent, seqCount, started, faultCount, flips>>

\* ------------------------------ actions: cache keys of executeQuery
\* A parameter object whose fields keep the order in which they were
\* supplied, as JSON.stringify writes them out.
Field(name, value) == [name |-> name, value |-> value]

KeyParams ==
  {<<>>,
   <<Field("dataverse", "dv")>>,
   <<Field("dataverse", "dv"), Field("format", "json")>>,
   <<Field("format", "json"), Field("dataverse", "dv")>>}

\* executeQuery online: the result of (query, params) is cached under its key
CacheQueryResult(query, params, data) ==
  LET key == generateCacheKey(query, params)
      entry == NewCacheEntry(data, <<>>, now)
  IN /\ AdapterReturns("setCache", key,
                       [ok |-> TRUE,
                        store |-> setItem(cacheStore, key, entry),
                        registry |-> setItem(cacheRegistry, key,
                                             entry.metadata.expiresAt)],
                       Null, 0)
     /\ UNCHANGED <<accepted, storesReady, isOnline, isSyncing, syncInterval, activeTimers, lifecycle, queueStore,
                    gatewayOptions, now, calls, throwingListener,
                    connectivityEvent, seqCount, faultCount, flips>>

\* executeQuery offline: the cache is asked for the key of (query, params)
FindQueryResult(query, params) ==
  LET key == generateCacheKey(query, params)
      r == getCache(cacheStore, cacheRegistry, key, now)
  IN /\ AdapterReturns("getCache", key,
                       [ok |-> TRUE, store |-> r.store, registry |-> r.registry],
                       r.entry, 0)
     /\ UNCHANGED <<accepted, storesReady, isOnline, isSyncing, syncInterval, activeTimers, lifecycle, queueStore,
                    gatewayOptions, now, calls, throwingListener,
                    connectivityEvent, seqCount, faultCount, flips>>

\* ------------------------- actions: LocalStorageAdapter readiness barrier
\* (mutant) a method does not wait for _readyPromise
BarrierOpenAlways == TRUE

\* await this._readyPromise: the promise settles after its finally callback
BarrierOpen == storesReady

\* the finally callback of the constructor: _initializeStores()
InitializeStores ==
  /\ ~Settled /\ ~storesReady
  /\ storesReady' = TRUE
  /\ UNCHANGED <<accepted, isOnline, isSyncing, syncInterval, activeTimers, lifecycle, queueStore, cacheStore,
                 cacheRegistry, gatewayOptions, now, calls, throwingListener,
                 connectivityEvent, seqCount, started, faultCount, flips,
                 adapterCall>>

\* a method of the adapter up to `await this._readyPromise`; early is the
\* history of whether it was invoked before the stores existed
Invoke(c, kind, key, data, operationId, operation) ==
  /\ FirstFree(c) /\ started < MaxCalls
  /\ started' = started + 1
  /\ calls' = [calls EXCEPT ![c] =
       [NewCall(kind) EXCEPT !.pc = "awaitReady", !.cacheKey = key,
                             !.value = data, !.operationId = operationId,
                             !.operation = operation, !.early = ~storesReady]]
  /\ UNCHANGED <<accepted, storesReady, adapterCall, isOnline, isSyncing, syncInterval, activeTimers, lifecycle,
                 queueStore, cacheStore, cacheRegistry, gatewayOptions, now,
                 throwingListener, connectivityEvent, seqCount, faultCount,
                 flips>>

\* the rest of the method, from `if (!this.store) throw` on, with the backend
\* answering at once
AfterReady(s) ==
  LET same == [cacheStore |-> cacheStore, cacheRegistry |-> cacheRegistry,
               queueStore |-> queueStore, call |-> s]
      resolved == [s EXCEPT !.pc = "done", !.ret = "resolved"]
      rejected(error) == [s EXCEPT !.pc = "done", !.ret = "rejected",
                                   !.error = error]
  IN IF ~storesReady
     THEN [same EXCEPT !.call = rejected("notReady")]
     ELSE CASE s.kind = "setCache" ->
                 LET r == setCache(cacheStore, cacheRegistry, s.cacheKey,
                                   s.value, <<>>, now)
                 IN [same EXCEPT !.cacheStore = r.store,
                                 !.cacheRegistry = r.registry,
                                 !.call = IF r.ok THEN resolved
                                          ELSE rejected("validation")]
            [] s.kind = "getCache" ->
                 LET r == getCache(cacheStore, cacheRegistry, s.cacheKey, now)
                 IN [same EXCEPT !.cacheStore = r.store,
                                 !.cacheRegistry = r.registry,
                                 !.call = [resolved EXCEPT !.found = r.entry]]
            [] s.kind = "queueOperation" ->
                 IF ValidQueueArgs(s.operationId, s.operation)
                 THEN [same EXCEPT
                         !.queueStore =
                            setItem(@, s.operationId,
                                    NewQueueEntry(s.operation, now, seqCount + 1)),
                         !.call = resolved]
                 ELSE [same EXCEPT !.call = rejected("validation")]
            [] OTHER ->
                 [same EXCEPT !.call =
                    [resolved EXCEPT !.snapshot = getPendingOperations(queueStore)]]

ReadyResolves(c) ==
  /\ At(c, "awaitReady")
  /\ BarrierOpen
  /\ LET r == AfterReady(calls[c])
     IN /\ cacheStore' = r.cacheStore
        /\ cacheRegistry' = r.cacheRegistry
        /\ queueStore' = r.queueStore
        /\ seqCount' = IF r.queueStore # queueStore THEN seqCount + 1 ELSE seqCount
        /\ calls' = [calls EXCEPT ![c] = r.call]
  /\ UNCHANGED <<accepted, storesReady, adapterCall, isOnline, isSyncing, syncInterval, activeTimers, lifecycle,
                 gatewayOptions, now, throwingListener, connectivityEvent,
                 started, faultCount, flips>>

\* ------------------------------------------------------------ specification
\* the operations the application hands to SyncManager.queueOperation
DirectOperations ==
  {PlainOperation("INSERT", QInsert), Operation("UPSERT", QUpsert, 2),
   Operation("INSERT", QInsert, 0)}

DirectIds == {"op1", "op2"}

\* a queue left in the persistent store by an earlier session:
\* priorities 1, 3, 2 with increasing timestamps
PersistedQueue ==
  [k \in OpIds |->
     CASE k = "op1" -> NewQueueEntry(PlainOperation("INSERT", QInsert), 0, 1)
       [] k = "op2" -> NewQueueEntry(Operation("DELETE", QDelete, 3), 0, 2)
       [] OTHER -> NewQueueEntry(Operation("UPDATE", QUpdate, 2), 1, 3)]

DefaultOptions == [cacheEnabled |-> TRUE, cacheTTL |-> DefaultCacheTTL]

InitCommon ==
  /\ isOnline \in BOOLEAN
  /\ isSyncing = FALSE
  /\ syncInterval = FALSE
  /\ activeTimers = 0
  /\ lifecycle = "none"
  /\ cacheStore = EmptyStore
  /\ cacheRegistry = EmptyStore
  /\ calls = [c \in Slots |-> IdleCall]
  /\ connectivityEvent = "none"
  /\ started = 0
  /\ faultCount = 0
  /\ flips = 0
  /\ adapterCall = NoAdapterCall
  /\ accepted = {}

Init ==
  /\ InitCommon
  /\ storesReady = TRUE
  /\ now = 1
  /\ gatewayOptions = DefaultOptions
  /\ throwingListener = "none"
  /\ queueStore \in {EmptyStore, PersistedQueue}
  /\ seqCount = Cardinality(DOMAIN queueStore)

Next ==
  \/ \E c \in Slots : CallSync(c)
  \/ \E c \in Slots : TimerTick(c)
  \/ \E c \in Slots, id \in DirectIds, op \in DirectOperations :
       CallQueueOperation(c, id, op)
  \/ \E c \in Slots : CallQueueOperation(c, "", PlainOperation("INSERT", QInsert))
  \/ \E c \in Slots : CallQueueOperation(c, "op1", PlainOperation("", QInsert))
  \/ \E c \in Slots : CallQueueOperation(c, "op1", PlainOperation("INSERT", NoQuery))
  \/ \E c \in Slots : QueueStoreResolves(c)
  \/ \E c \in Slots : QueueStoreFails(c)
  \/ \E c \in Slots : PendingResolves(c)
  \/ \E c \in Slots : PendingFails(c)
  \/ \E c \in Slots, outcome \in RemoteOutcomes : RemoteResponds(c, outcome)
  \/ \E c \in Slots : RemoveResolves(c)
  \/ \E c \in Slots : RemoveFails(c)
  \/ \E c \in Slots : Return(c)
  \/ HandleOnline
  \/ HandleOffline
  \/ ClockTick

Spec == Init /\ [][Next]_vars

\* The coordinator with an application that also starts and stops the
\* periodic timer and destroys the coordinator.
NextTimer ==
  \/ \E c \in Slots : CallSync(c)
  \/ \E c \in Slots : TimerTick(c)
  \/ \E c \in Slots : CallQueueOperation(c, "op1", PlainOperation("INSERT", QInsert))
  \/ \E c \in Slots : QueueStoreResolves(c)
  \/ \E c \in Slots : PendingResolves(c)
  \/ \E c \in Slots, outcome \in RemoteOutcomes : RemoteResponds(c, outcome)
  \/ \E c \in Slots : RemoveResolves(c)
  \/ \E c \in Slots : Return(c)
  \/ HandleOnline
  \/ HandleOffline
  \/ CallStartSync
  \/ CallStopSync
  \/ CallDestroy

SpecTimer == Init /\ [][NextTimer]_vars

\* The coordinator as its constructor leaves it (online, no periodic timer),
\* used only through queueOperation: the application never calls sync(),
\* startSync() or handleOnline(), the remote executor accepts every operation
\* and no storage operation fails. Every operation that is awaited settles,
\* and the caller takes every result.
InitLive ==
  /\ Init
  /\ isOnline
  /\ queueStore = EmptyStore

NextLive ==
  \/ \E c \in Slots, id \in DirectIds :
       CallQueueOperation(c, id, PlainOperation("INSERT", QInsert))
  \/ \E c \in Slots : QueueStoreResolves(c)
  \/ \E c \in Slots : PendingResolves(c)
  \/ \E c \in Slots : RemoteResponds(c, "success")
  \/ \E c \in Slots : RemoveResolves(c)
  \/ \E c \in Slots : Return(c)

SpecLive ==
  /\ InitLive
  /\ [][NextLive]_vars
  /\ \A c \in Slots :
       /\ WF_vars(QueueStoreResolves(c))
       /\ WF_vars(PendingResolves(c))
       /\ WF_vars(RemoteResponds(c, "success"))
       /\ WF_vars(RemoveResolves(c))
       /\ WF_vars(Return(c))

\* The same coordinator with a listener, registered on the SyncManager itself,
\* that throws when one of the events of a pass is emitted.
PassEvents ==
  {"syncStart", "syncProgress", "syncConflict", "syncComplete", "syncError"}

InitListener ==
  /\ InitCommon
  /\ storesReady = TRUE
  /\ now = 1
  /\ gatewayOptions = DefaultOptions
  /\ throwingListener \in PassEvents
  /\ queueStore = PersistedQueue
  /\ seqCount = Cardinality(DOMAIN queueStore)

SpecListener == InitListener /\ [][Next]_vars

\* The application talks to the OfflineEnabledConnector only: executeQuery,
\* forceSynchronization, and the connectivity events.
GatewayWrites ==
  {QInsert, QInsertLower, QUpsert, QDelete, QUpdate, QCreate, QDrop, QLoad, QSet}

GatewayReads == {QSelect}

InitGateway ==
  /\ InitCommon
  /\ storesReady = TRUE
  /\ now = 0
  /\ gatewayOptions \in {[cacheEnabled |-> TRUE, cacheTTL |-> t] : t \in {DefaultCacheTTL, 3}}
  /\ throwingListener = "none"
  /\ queueStore = EmptyStore
  /\ seqCount = 0

NextGateway ==
  \/ \E c \in Slots, q \in GatewayWrites \cup GatewayReads : CallExecuteQuery(c, q)
  \/ \E c \in Slots, d \in RemoteData \cup {"error"} : RemoteReadResponds(c, d)
  \/ \E c \in Slots : SetCacheResolves(c)
  \/ \E c \in Slots : SetCacheFails(c)
  \/ \E c \in Slots : GetCacheResolves(c)
  \/ \E c \in Slots : GetCacheFallbackResolves(c)
  \/ \E c \in Slots, d \in RemoteData \cup {"error"} : RemoteDirectResponds(c, d)
  \/ \E c \in Slots, options \in {NullOptions, <<>>} :
       CallClearQueryCache(c, QSelect, options)
  \/ \E c \in Slots : CallClearQueryCache(c, NoQuery, NullOptions)
  \/ \E c \in Slots : ClearResolves(c)
  \/ \E c \in Slots : CallSync(c)
  \/ \E c \in Slots : TimerTick(c)
  \/ \E c \in Slots : QueueStoreResolves(c)
  \/ \E c \in Slots : QueueStoreFails(c)
  \/ \E c \in Slots : PendingResolves(c)
  \/ \E c \in Slots : PendingFails(c)
  \/ \E c \in Slots, outcome \in RemoteOutcomes : RemoteResponds(c, outcome)
  \/ \E c \in Slots : RemoveResolves(c)
  \/ \E c \in Slots : RemoveFails(c)
  \/ \E c \in Slots : Return(c)
  \/ HandleOnline
  \/ HandleOffline
  \/ ClockTick

SpecGateway == InitGateway /\ [][NextGateway]_vars

\* The application uses the gateway with caching switched on or off, per
\* instance or per call, and through the collection API (insertOne, deleteOne).
ClientQueries == {QSelect, QInsert, QUseInsert, QUseDelete}

ClientOptions == {<<>>, [cacheEnabled |-> FALSE]}

InitClient ==
  /\ InitCommon
  /\ storesReady = TRUE
  /\ now = 0
  /\ gatewayOptions \in {[cacheEnabled |-> e, cacheTTL |-> DefaultCacheTTL] : e \in BOOLEAN}
  /\ throwingListener = "none"
  /\ queueStore = EmptyStore
  /\ seqCount = 0

NextClient ==
  \/ \E c \in Slots, q \in ClientQueries, o \in ClientOptions :
       CallExecuteQueryOptions(c, q, o)
  \/ \E c \in Slots, d \in RemoteData \cup {"error"} : RemoteReadResponds(c, d)
  \/ \E c \in Slots : SetCacheResolves(c)
  \/ \E c \in Slots : SetCacheFails(c)
  \/ \E c \in Slots : GetCacheResolves(c)
  \/ \E c \in Slots : GetCacheFallbackResolves(c)
  \/ \E c \in Slots, d \in RemoteData \cup {"error"} : RemoteDirectResponds(c, d)
  \/ \E c \in Slots : CallSync(c)
  \/ \E c \in Slots : TimerTick(c)
  \/ \E c \in Slots : QueueStoreResolves(c)
  \/ \E c \in Slots : QueueStoreFails(c)
  \/ \E c \in Slots : PendingResolves(c)
  \/ \E c \in Slots : PendingFails(c)
  \/ \E c \in Slots, outcome \in RemoteOutcomes : RemoteResponds(c, outcome)
  \/ \E c \in Slots : RemoveResolves(c)
  \/ \E c \in Slots : RemoveFails(c)
  \/ \E c \in Slots : Return(c)
  \/ HandleOnline
  \/ HandleOffline
  \/ ClockTick

SpecClient == InitClient /\ [][NextClient]_vars

\* The application uses the cache of a LocalStorageAdapter directly, one call
\* after the other.
InitAdapter ==
  /\ InitCommon
  /\ storesReady = TRUE
  /\ isOnline = TRUE
  /\ now = 0
  /\ gatewayOptions = DefaultOptions
  /\ throwingListener = "none"
  /\ queueStore = EmptyStore
  /\ seqCount = 0

NextAdapter ==
  \/ \E key \in CacheKeys \cup {""}, data \in RemoteData, metadata \in CacheMetadata :
       SetCache(key, data, metadata)
  \/ \E key \in CacheKeys, data \in RemoteData : SetCacheRegistryFails(key, data, <<>>)
  \/ \E key \in CacheKeys \cup {""} : GetCache(key)
  \/ \E key \in CacheKeys \cup {""} : RemoveCache(key)
  \/ \E key \in CacheKeys, newTTL \in {AdapterCacheTTL, LongTTL} :
       UpdateCacheTTL(key, newTTL)
  \/ ClearCache
  \/ CleanupExpiredCache
  \/ \E atRegistryWrite \in BOOLEAN : CleanupExpiredCacheFails(atRegistryWrite)
  \/ ClockTick

SpecAdapter == InitAdapter /\ [][NextAdapter]_vars

\* ------------------------------ the cache API, one storage operation a step
\* Every method of the cache API is a sequence of operations on the store
\* (store.getItem, setItem, removeItem, clear) and on the registry
\* (metaStore.getItem, setItem, removeItem), each awaited; calls that overlap
\* interleave between these operations. A call keeps in its frame the key
\* (cacheKey), the entry it built or read (found), its copy of the registry
\* (registry), the time it read (timestamp) and removedCount (completedCount).
MaxConcurrentCalls == 3

CacheStep(c, s, store, registry) ==
  /\ calls' = [calls EXCEPT ![c] = s]
  /\ cacheStore' = store
  /\ cacheRegistry' = registry
  /\ UNCHANGED <<accepted, storesReady, adapterCall, isOnline, isSyncing, syncInterval,
                 activeTimers, lifecycle, queueStore, gatewayOptions, now,
                 throwingListener, connectivityEvent, seqCount, started,
                 faultCount, flips>>

\* setCache, getCache, removeCache, clearCache, cleanupExpiredCache up to the
\* first storage operation
CallCache(c, kind, key, data) ==
  /\ FirstFree(c) /\ started < MaxConcurrentCalls
  /\ started' = started + 1
  /\ calls' = [calls EXCEPT ![c] =
       [NewCall(kind) EXCEPT
          !.cacheKey = key,
          !.found = IF kind = "setCache"
                    THEN NewCacheEntry(data, <<>>, now) ELSE Null,
          !.pc = CASE kind = "setCache" -> "awaitSetItem"
                   [] kind = "getCache" -> "awaitGetItem"
                   [] kind = "removeCache" -> "awaitRemoveItem"
                   [] kind = "clearCache" -> "awaitClear"
                   [] OTHER -> "awaitRegistry"]]
  /\ UNCHANGED <<accepted, storesReady, adapterCall, isOnline, isSyncing, syncInterval,
                 activeTimers, lifecycle, queueStore, cacheStore, cacheRegistry,
                 gatewayOptions, now, throwingListener, connectivityEvent,
                 seqCount, faultCount, flips>>

\* getCache: store.getItem(key) resolved
GetItemResolves(c) ==
  /\ At(c, "awaitGetItem")
  /\ LET key == calls[c].cacheKey
         s == calls[c]
     IN CacheStep(c,
          IF key \notin DOMAIN cacheStore
          THEN [s EXCEPT !.pc = "done", !.ret = "resolved"]
          ELSE IF /\ cacheStore[key].metadata.expiresAt # 0
                  /\ cacheStore[key].metadata.expiresAt < now
          THEN [s EXCEPT !.pc = "awaitRemoveItem"]
          ELSE [s EXCEPT !.pc = "awaitWriteBack",
                         !.found = [cacheStore[key] EXCEPT
                                      !.metadata.lastAccessed = now]],
          cacheStore, cacheRegistry)

\* setCache: store.setItem(key, entry) resolved; getCache: the write-back of
\* the entry with its lastAccessed resolved
SetItemResolves(c) ==
  /\ At(c, "awaitSetItem") \/ At(c, "awaitWriteBack")
  /\ CacheStep(c,
        IF calls[c].pc = "awaitSetItem"
        THEN [calls[c] EXCEPT !.pc = "awaitRegistry"]
        ELSE [calls[c] EXCEPT !.pc = "done", !.ret = "resolved"],
        setItem(cacheStore, calls[c].cacheKey, calls[c].found),
        cacheRegistry)

\* cleanupExpiredCache: the loop over the entries of its copy of the
\* registry, up to the next await
SweepLoop(s) ==
  IF \E k \in DOMAIN s.registry : s.registry[k] < s.timestamp
  THEN [s EXCEPT !.pc = "awaitRemoveItem"]
  ELSE IF s.completedCount > 0
  THEN [s EXCEPT !.pc = "awaitRegistryWrite"]
  ELSE [s EXCEPT !.pc = "done", !.ret = "resolved"]

\* store.removeItem(key) resolved: in removeCache, in the removeCache that
\* getCache calls for an expired entry, and in the loop of cleanupExpiredCache
RemoveItemResolves(c, key) ==
  /\ At(c, "awaitRemoveItem")
  /\ IF calls[c].kind = "cleanupExpiredCache"
     THEN /\ key \in DOMAIN calls[c].registry
          /\ calls[c].registry[key] < calls[c].timestamp
          /\ CacheStep(c,
                SweepLoop([calls[c] EXCEPT
                             !.registry = [k \in DOMAIN @ \ {key} |-> @[k]],
                             !.completedCount = @ + 1]),
                removeItem(cacheStore, key), cacheRegistry)
     ELSE /\ key = calls[c].cacheKey
          /\ CacheStep(c, [calls[c] EXCEPT !.pc = "awaitRegistry"],
                       removeItem(cacheStore, key), cacheRegistry)

\* clearCache: store.clear() resolved
StoreClearResolves(c) ==
  /\ At(c, "awaitClear")
  /\ CacheStep(c, [calls[c] EXCEPT !.pc = "awaitRegistryRemove"],
               EmptyStore, cacheRegistry)

\* _getCacheRegistry() resolved: in _addToCacheRegistry, in
\* _removeFromCacheRegistry and in cleanupExpiredCache
RegistryReadResolves(c) ==
  /\ At(c, "awaitRegistry")
  /\ LET s == calls[c]
         key == s.cacheKey
     IN CacheStep(c,
          CASE s.kind = "setCache" ->
                 [s EXCEPT !.pc = "awaitRegistryWrite",
                           !.registry = addToCacheRegistry(cacheRegistry, key,
                                          s.found.metadata.expiresAt)]
            [] s.kind = "cleanupExpiredCache" ->
                 SweepLoop([s EXCEPT !.registry = cacheRegistry,
                                     !.timestamp = now])
            [] OTHER ->
                 IF removeFromCacheRegistry(cacheRegistry, key) # cacheRegistry
                 THEN [s EXCEPT !.pc = "awaitRegistryWrite",
                                !.registry =
                                  removeFromCacheRegistry(cacheRegistry, key)]
                 ELSE [s EXCEPT !.pc = "done", !.ret = "resolved"],
          cacheStore, cacheRegistry)

\* metaStore.setItem('cacheRegistry', registry) resolved, or, in clearCache,
\* metaStore.removeItem('cacheRegistry')
RegistryWriteResolves(c) ==
  /\ At(c, "awaitRegistryWrite") \/ At(c, "awaitRegistryRemove")
  /\ CacheStep(c, [calls[c] EXCEPT !.pc = "done", !.ret = "resolved"],
               cacheStore,
               IF calls[c].pc = "awaitRegistryWrite"
               THEN calls[c].registry ELSE EmptyStore)

NextConcurrent ==
  \/ \E c \in Slots, key \in CacheKeys, data \in RemoteData :
       CallCache(c, "setCache", key, data)
  \/ \E c \in Slots, key \in CacheKeys : CallCache(c, "getCache", key, "")
  \/ \E c \in Slots, key \in CacheKeys : CallCache(c, "removeCache", key, "")
  \/ \E c \in Slots : CallCache(c, "clearCache", "", "")
  \/ \E c \in Slots : CallCache(c, "cleanupExpiredCache", "", "")
  \/ \E c \in Slots : GetItemResolves(c)
  \/ \E c \in Slots : SetItemResolves(c)
  \/ \E c \in Slots, key \in CacheKeys : RemoveItemResolves(c, key)
  \/ \E c \in Slots : StoreClearResolves(c)
  \/ \E c \in Slots : RegistryReadResolves(c)
  \/ \E c \in Slots : RegistryWriteResolves(c)
  \/ \E c \in Slots : Return(c)
  \/ ClockTick

SpecConcurrent == InitAdapter /\ [][NextConcurrent]_vars

\* The adapter from its construction on: methods are invoked before and after
\* the stores exist.
InitReady ==
  /\ InitCommon
  /\ storesReady = FALSE
  /\ isOnline = TRUE
  /\ now = 0
  /\ gatewayOptions = DefaultOptions
  /\ throwingListener = "none"
  /\ queueStore \in {EmptyStore, PersistedQueue}
  /\ seqCount = Cardinality(DOMAIN queueStore)

NextReady ==
  \/ \E c \in Slots, key \in CacheKeys, data \in RemoteData :
       Invoke(c, "setCache", key, data, "", NoOperation)
  \/ \E c \in Slots, key \in CacheKeys :
       Invoke(c, "getCache", key, "", "", NoOperation)
  \/ \E c \in Slots, id \in DirectIds, op \in DirectOperations :
       Invoke(c, "queueOperation", "", "", id, op)
  \/ \E c \in Slots : Invoke(c, "getPendingOperations", "", "", "", NoOperation)
  \/ InitializeStores
  \/ \E c \in Slots : ReadyResolves(c)
  \/ \E c \in Slots : Return(c)
  \/ ClockTick

SpecReady == InitReady /\ [][NextReady]_vars

\* Results cached and looked up by the key derived from a query and its
\* parameter object.
InitKey ==
  /\ InitCommon
  /\ storesReady = TRUE
  /\ isOnline = TRUE
  /\ now = 0
  /\ gatewayOptions = DefaultOptions
  /\ throwingListener = "none"
  /\ queueStore = EmptyStore
  /\ seqCount = 0

NextKey ==
  \/ \E query \in {QSelect, QSelectLower}, params \in KeyParams, data \in RemoteData :
       CacheQueryResult(query, params, data)
  \/ \E query \in {QSelect, QSelectLower}, params \in KeyParams :
       FindQueryResult(query, params)
  \/ ClockTick

SpecKey == InitKey /\ [][NextKey]_vars

\* ------------------------------------------------------------------ claims
PassPcs == {"awaitPending", "awaitRemote", "awaitRemove"}
InPass(c) == calls[c].pc \in PassPcs
Last(seq) == seq[Len(seq)]
NoFault(c) == calls[c].faults = <<>>

\* C1: at most one sync pass is in progress at any time, and a sync() that
\* finds a pass in flight while online (a direct call, a timer tick or the
\* sync() of queueOperation) emits nothing, reads no queue, makes no remote
\* call, leaves the flag and the queue alone and resolves.
C1_OnePass == Cardinality({c \in Slots : InPass(c)}) <= 1

C1_Silent(c) ==
  /\ calls'[c].pc = "done"
  /\ calls'[c].ret = "resolved"
  /\ calls'[c].pass = 0
  /\ calls'[c].reads = 0
  /\ calls'[c].remote = <<>>
  /\ isSyncing'
  /\ \A d \in Slots \ {c} : calls'[d] = calls[d]

C1_NoOpStep ==
  (isOnline /\ isSyncing) =>
    \A c \in Slots :
      /\ (calls[c].pc = "idle" /\ calls'[c].kind \in {"sync", "timer"}) =>
           (C1_Silent(c) /\ calls'[c].emitted = <<>> /\ queueStore' = queueStore)
      /\ (calls[c].pc = "awaitQueueStore" /\ calls'[c].pc # "awaitQueueStore"
             /\ calls'[c].faults = <<>>) =>
           (C1_Silent(c)
              /\ calls'[c].emitted
                   = <<Event("operationQueued", calls[c].operationId, 0, 0)>>)

C1_MutualExclusion == []C1_OnePass /\ [][C1_NoOpStep]_vars

C1_Witness ==
  \E c, d \in Slots :
    /\ c # d /\ InPass(c) /\ isOnline
    /\ calls[d].pc = "done" /\ calls[d].kind = "sync"
    /\ calls[d].ret = "resolved" /\ calls[d].emitted = <<>>

\* C2: whenever the busy flag is set a pass is running: every sync() that set
\* the flag has reset it when it ends, whatever the exit path.
C2_FlagReset == isSyncing => \E c \in Slots : InPass(c)

\* a pass over a non-empty snapshot has ended
PassDone(c) ==
  calls[c].pc = "done" /\ calls[c].pass = 1 /\ Len(calls[c].snapshot) > 0

Answers(c, id) ==
  {j \in DOMAIN calls[c].remote : calls[c].remote[j].operationId = id}

Conflicts(c, id) ==
  {j \in DOMAIN calls[c].emitted :
     /\ calls[c].emitted[j].name = "syncConflict"
     /\ calls[c].emitted[j].operationId = id}

\* operation k of the snapshot failed: malformed shape, unsupported type,
\* remote rejection (a response without status 'success', or none), an
\* execution error of the remote call or of the removal
Failed(c, k) ==
  LET op == calls[c].snapshot[k]
  IN \/ op.operation.type = "" \/ op.operation.query = NoQuery
     \/ op.operation.type \notin {"INSERT", "UPDATE", "DELETE"}
     \/ \E j \in Answers(c, op.operationId) :
          calls[c].remote[j].outcome # "success"
     \/ \E j \in DOMAIN calls[c].faults :
          /\ calls[c].faults[j].at = "removeOperation"
          /\ calls[c].faults[j].operationId = op.operationId

FailedSet(c) == {k \in DOMAIN calls[c].snapshot : Failed(c, k)}

StillStored(c, k) ==
  LET op == calls[c].snapshot[k]
  IN /\ op.operationId \in DOMAIN queueStore
     /\ queueStore[op.operationId].seq = op.seq

\* C3: conflict isolation. When a pass over a snapshot of n operations ends,
\* every operation that did not fail was executed once with success and its
\* entry is gone, every failed one is still queued, there is exactly one
\* syncConflict per failed operation and none for the others, and the pass
\* ends with syncComplete{operationsSynced: n - |F|} and no syncError.
C3_ConflictIsolation ==
  \A c \in Slots : PassDone(c) =>
    LET snap == calls[c].snapshot
    IN /\ \A k \in DOMAIN snap :
            LET id == snap[k].operationId
            IN /\ ~Failed(c, k) =>
                    /\ Cardinality(Answers(c, id)) = 1
                    /\ ~StillStored(c, k)
               /\ Failed(c, k) => id \in DOMAIN queueStore
               /\ Cardinality(Conflicts(c, id)) = IF Failed(c, k) THEN 1 ELSE 0
       /\ Last(calls[c].emitted)
            = Event("syncComplete", "", 0, Len(snap) - Cardinality(FailedSet(c)))
       /\ \A j \in DOMAIN calls[c].emitted : calls[c].emitted[j].name # "syncError"

C3_Witness ==
  \E c \in Slots :
    /\ PassDone(c) /\ Len(calls[c].snapshot) = 3
    /\ FailedSet(c) = {2}
    /\ calls[c].completedCount = 2
    /\ \E j \in DOMAIN calls[c].remote : calls[c].remote[j].outcome = "error"

\* C4: a pass asks for the removal of an operation only right after the
\* remote executor answered status 'success' to that operation's query, an
\* entry leaves the queue only in such a removal, and never more than one
\* entry at a time (no clearQueue).
C4_RemovalPending ==
  \A c \in Slots : calls[c].pc = "awaitRemove" =>
    LET op == calls[c].snapshot[calls[c].i]
    IN /\ calls[c].remote # <<>>
       /\ Last(calls[c].remote)
            = RemoteAnswer(op.operationId, op.operation.query, "success")

C4_RemovalStep ==
  \A id \in DOMAIN queueStore \ DOMAIN queueStore' :
    /\ DOMAIN queueStore \ DOMAIN queueStore' = {id}
    /\ \E c \in Slots :
         /\ calls[c].pc = "awaitRemove"
         /\ calls[c].snapshot[calls[c].i].operationId = id
         /\ calls'[c].completedCount = calls[c].completedCount + 1

C4_RemoveOnlyOnSuccess == []C4_RemovalPending /\ [][C4_RemovalStep]_vars

C4_Witness ==
  \E c \in Slots :
    /\ PassDone(c) /\ calls[c].completedCount = 1
    /\ \E j \in DOMAIN calls[c].remote : calls[c].remote[j].outcome = "rejected"
    /\ \E j \in DOMAIN calls[c].remote : calls[c].remote[j].outcome = "none"

\* C5: sync only removes entries, it never writes to one: an entry changes
\* only when queueOperation stores under its id, and when a pass ends every
\* failed operation that was not stored again is in the queue with the
\* operation record and the metadata the pass read.
C5_FailedAsRead ==
  \A c \in Slots : PassDone(c) =>
    \A k \in FailedSet(c) :
      LET op == calls[c].snapshot[k]
      IN /\ op.operationId \in DOMAIN queueStore
         /\ queueStore[op.operationId].seq = op.seq =>
              /\ queueStore[op.operationId].operation = op.operation
              /\ queueStore[op.operationId].metadata = op.metadata

C5_WriteStep ==
  \A id \in DOMAIN queueStore' :
    (id \notin DOMAIN queueStore \/ queueStore'[id] # queueStore[id]) =>
      \E c \in Slots :
        /\ calls[c].pc = "awaitQueueStore"
        /\ calls[c].operationId = id
        /\ queueStore'[id].seq = seqCount'

C5_FailedUntouched == []C5_FailedAsRead /\ [][C5_WriteStep]_vars

C5_Witness ==
  \E c \in Slots :
    /\ PassDone(c)
    /\ \E k \in FailedSet(c) : StillStored(c, k)
    /\ \E k \in DOMAIN calls[c].snapshot : ~Failed(c, k)


\* a call of executeQuery has settled
GatewayDone(c) == calls[c].pc = "done" /\ calls[c].kind = "executeQuery"

\* C6: a write that the gateway accepted offline and that the remote executor
\* would accept is executed remotely and removed by a pass that has it in its
\* snapshot, and counted by that pass, whatever its verb.
C6_QueuedWritesSynced ==
  \A c \in Slots : PassDone(c) =>
    \A k \in DOMAIN calls[c].snapshot :
      LET id == calls[c].snapshot[k].operationId
      IN (/\ \A j \in Answers(c, id) : calls[c].remote[j].outcome = "success"
          /\ \A j \in DOMAIN calls[c].faults : calls[c].faults[j].operationId # id)
         => /\ Answers(c, id) # {}
            /\ ~StillStored(c, k)
            /\ \E j \in DOMAIN calls[c].emitted :
                 /\ calls[c].emitted[j].name = "syncProgress"
                 /\ calls[c].emitted[j].operationId = id

\* the operation type that belongs to the leading keyword of a statement
C7_LeadingKeyword(query) ==
  toUpperCase(<<SelectSeq(query, LAMBDA t : t # " ")[1]>>)[1]

C7_TypeOf(query) ==
  IF C7_LeadingKeyword(query)
       \in {"INSERT", "UPSERT", "DELETE", "UPDATE", "CREATE", "DROP", "LOAD"}
  THEN C7_LeadingKeyword(query)
  ELSE "UNKNOWN"

OfflineReadDone(c) ==
  /\ GatewayDone(c) /\ isReadOnlyQuery(calls[c].query)
  /\ ~calls[c].wasOnline /\ ~isOnline
  /\ calls[c].lookedUp >= 0

\* C8: offline, a read whose entry was cached less than cacheTTL ago returns
\* exactly the cached data, a read with no entry fails with the
\* offline-no-cache error, and neither makes a remote call.
C8_OfflineReadFallback ==
  \A c \in Slots : OfflineReadDone(c) =>
    /\ calls[c].remote = <<>>
    /\ (/\ calls[c].found # Null
        /\ calls[c].lookedUp - calls[c].found.metadata.timestamp
             < gatewayOptions.cacheTTL)
       => /\ calls[c].ret = "resolved"
          /\ calls[c].value.kind = "cached"
          /\ calls[c].value.data = calls[c].found.data
    /\ (calls[c].found = Null /\ calls[c].cacheKey \notin DOMAIN cacheStore)
       => (calls[c].ret = "rejected" /\ calls[c].error = "offlineNoCache")

\* C9: offline, a read whose entry exists but is older than cacheTTL still
\* succeeds with the cached data flagged _fromCache and _cacheTimestamp.
C9_StaleServedOffline ==
  \A c \in Slots :
    (/\ OfflineReadDone(c)
     /\ calls[c].found # Null
     /\ calls[c].lookedUp - calls[c].found.metadata.timestamp
          >= gatewayOptions.cacheTTL)
    => /\ calls[c].ret = "resolved"
       /\ calls[c].value.kind = "stale"
       /\ calls[c].value.data = calls[c].found.data
       /\ calls[c].value.cacheTimestamp = calls[c].found.metadata.timestamp

\* C10: when the remote read succeeded and the write-through setCache failed,
\* executeQuery still resolves with the remote result.
C10_CacheFailureTolerated ==
  \A c \in Slots :
    (/\ GatewayDone(c)
     /\ \E j \in DOMAIN calls[c].faults : calls[c].faults[j].at = "setCache")
    => /\ calls[c].ret = "resolved"
       /\ calls[c].value.kind = "remote"
       /\ calls[c].value.data = Last(calls[c].remote).outcome


\* a read or a write, by the gateway's own classification
GatewayRead(call) == call.kind = "executeQuery" /\ isReadOnlyQuery(call.query)
GatewayWrite(call) == call.kind = "executeQuery" /\ ~isReadOnlyQuery(call.query)

C11_Step ==
  \A c \in Slots :
    (/\ calls[c].pc = "awaitRemoteRead" /\ calls'[c].pc # "awaitRemoteRead"
     /\ Last(calls'[c].remote).outcome = "error"
     /\ isOnline)
    => /\ calls'[c].pc = "done"
       /\ calls'[c].ret = "rejected" /\ calls'[c].error = "remote"
       /\ calls'[c].value = NoValue
       /\ calls'[c].lookedUp = -1
       /\ cacheStore' = cacheStore /\ cacheRegistry' = cacheRegistry

\* C11: when the remote call of a cached read fails while the gateway is
\* online, executeQuery rejects with the remote error in that very step,
\* without reading or changing the cache and without returning any data.
C11_OnlineReadErrorPropagates == [][C11_Step]_vars

\* the remote read failed online although a fresh entry for the query exists
C11_Witness ==
  \E c \in Slots :
    /\ GatewayDone(c) /\ GatewayRead(calls[c])
    /\ calls[c].wasOnline /\ isOnline
    /\ calls[c].ret = "rejected" /\ calls[c].error = "remote"
    /\ calls[c].cacheKey \in DOMAIN cacheStore
    /\ cacheStore[calls[c].cacheKey].metadata.timestamp = now


\* a read for which caching is switched off, by the instance or by the call
NonCacheable(call) ==
  GatewayRead(call) /\ ~combinedOptions(call.options).cacheEnabled

C12_Outcome ==
  \A c \in Slots : (GatewayDone(c) /\ NonCacheable(calls[c])) =>
    IF ~calls[c].wasOnline
    THEN /\ calls[c].ret = "rejected" /\ calls[c].error = "nonCacheableOffline"
         /\ calls[c].remote = <<>>
         /\ calls[c].lookedUp = -1
         /\ calls[c].operationId = "" /\ calls[c].emitted = <<>>
    ELSE /\ Len(calls[c].remote) = 1
         /\ calls[c].remote[1].query = calls[c].query
         /\ IF calls[c].remote[1].outcome = "error"
            THEN calls[c].ret = "rejected" /\ calls[c].error = "remote"
            ELSE /\ calls[c].ret = "resolved"
                 /\ calls[c].value.kind = "remote"
                 /\ calls[c].value.data = calls[c].remote[1].outcome

C12_Step ==
  \A c \in Slots :
    (/\ calls'[c] # calls[c]
     /\ calls'[c].kind = "executeQuery" /\ NonCacheable(calls'[c]))
    => /\ cacheStore' = cacheStore /\ cacheRegistry' = cacheRegistry
       /\ queueStore' = queueStore
       /\ (calls[c].pc = "idle" /\ ~isOnline) => calls'[c].pc = "done"

\* C12: a read with caching disabled (by the instance options or by the
\* options of the call) fails at once with the non-cacheable-offline error
\* when issued offline, with no remote call, no cache access and no enqueue;
\* issued online it is executed remotely once, its result or error is
\* returned, and no step of the call touches the cache or the queue.
C12_NonCacheableRead == []C12_Outcome /\ [][C12_Step]_vars

C12_Witness ==
  \E c \in Slots :
    /\ GatewayDone(c) /\ NonCacheable(calls[c])
    /\ gatewayOptions.cacheEnabled /\ calls[c].options # <<>>
    /\ ~calls[c].wasOnline
    /\ calls[c].ret = "rejected" /\ calls[c].error = "nonCacheableOffline"


\* a write given to the gateway while it was online
OnlineWrite(call) == GatewayWrite(call) /\ call.wasOnline

C13_Outcome ==
  \A c \in Slots : (GatewayDone(c) /\ OnlineWrite(calls[c])) =>
    /\ Len(calls[c].remote) = 1
    /\ calls[c].remote[1].query = calls[c].query
    /\ calls[c].remote[1].operationId = ""
    /\ IF calls[c].remote[1].outcome = "error"
       THEN calls[c].ret = "rejected" /\ calls[c].error = "remote"
       ELSE /\ calls[c].ret = "resolved"
            /\ calls[c].value.kind = "remote"
            /\ calls[c].value.data = calls[c].remote[1].outcome
    /\ calls[c].operationId = "" /\ calls[c].emitted = <<>>

C13_Step ==
  \A c \in Slots :
    (calls'[c] # calls[c] /\ OnlineWrite(calls'[c]))
    => /\ queueStore' = queueStore
       /\ cacheStore' = cacheStore /\ cacheRegistry' = cacheRegistry

\* C13: a write given to the gateway while online is sent to the remote
\* executor exactly once and its result or error is what the call returns;
\* no step of the call adds to the queue or writes to the cache.
C13_OnlineWriteDirect == []C13_Outcome /\ [][C13_Step]_vars

C13_Witness ==
  \E c \in Slots :
    /\ GatewayDone(c) /\ OnlineWrite(calls[c])
    /\ calls[c].ret = "rejected" /\ calls[c].error = "remote"
    /\ queueStore = EmptyStore /\ cacheStore = EmptyStore

\* C14: a data-modification statement built by the collection API (USE
\* clause, then INSERT or DELETE) and given to the gateway while offline is
\* queued: unless storing it fails, the call returns the queued
\* acknowledgement for an operation id under which operationQueued was emitted.
C14_CollectionWriteQueued ==
  \A c \in Slots :
    (/\ GatewayDone(c)
     /\ calls[c].query \in {QUseInsert, QUseDelete}
     /\ ~calls[c].wasOnline
     /\ calls[c].faults = <<>>)
    => /\ calls[c].ret = "resolved"
       /\ calls[c].value.kind = "queued"
       /\ calls[c].operationId # ""
       /\ calls[c].emitted # <<>>
       /\ calls[c].emitted[1].name = "operationQueued"

C15_Step ==
  \A c \in Slots :
    LET key == generateCacheKey(calls'[c].query, calls'[c].options)
    IN (/\ calls[c].pc = "idle" /\ GatewayRead(calls'[c])
        /\ combinedOptions(calls'[c].options).cacheEnabled
        /\ key \in DOMAIN cacheStore
        /\ now - cacheStore[key].metadata.timestamp < gatewayOptions.cacheTTL
        /\ cacheStore[key].metadata.expiresAt >= now)
       => calls'[c].pc # "awaitRemoteRead"

\* C15: a read identical to one whose result was cached less than cacheTTL
\* ago (and whose entry has not expired) does not contact the server, online
\* or offline.
C15_RepeatedReadFromCache == [][C15_Step]_vars


\* the list a pass got from getPendingOperations is in replay order:
\* priority descending, then timestamp ascending, and within one priority in
\* the order of enqueueing (seq)
C16_Ordered ==
  \A c \in Slots : \A i, j \in DOMAIN calls[c].snapshot :
    i < j =>
      LET a == calls[c].snapshot[i]
          b == calls[c].snapshot[j]
      IN /\ a.operationId # b.operationId
         /\ \/ a.metadata.priority > b.metadata.priority
            \/ /\ a.metadata.priority = b.metadata.priority
               /\ a.metadata.timestamp <= b.metadata.timestamp
               /\ a.seq < b.seq

\* the list holds every queued operation
C16_Complete ==
  \A c \in Slots :
    (calls[c].pc = "awaitPending" /\ calls'[c].pc # "awaitPending"
     /\ calls'[c].reads = calls[c].reads + 1)
    => {calls'[c].snapshot[k].operationId : k \in DOMAIN calls'[c].snapshot}
         = DOMAIN queueStore

\* C16: getPendingOperations() returns every queued operation exactly once,
\* by priority descending and, within a priority, by enqueue timestamp
\* ascending, so that operations of one priority come out first-in first-out.
C16_PendingOrder == []C16_Ordered /\ [][C16_Complete]_vars


\* a step of SpecAdapter in which a call of the method op completes
AdapterStep(op) == adapterCall'.op = op /\ started' = started + 1

\* C17: an entry created by setCache has expiresAt = timestamp + ttl, the ttl
\* being the one of the metadata argument when it has one and the adapter's
\* default cacheTTL otherwise.
C17_ExpiresAtIsTimestampPlusTTL ==
  (adapterCall.op = "setCache" /\ adapterCall.ok) =>
    LET metadata == cacheStore[adapterCall.key].metadata
    IN metadata.expiresAt
         = metadata.timestamp
             + (IF metadata.ttl # 0 THEN metadata.ttl ELSE AdapterCacheTTL)

C18_Step ==
  AdapterStep("updateCacheTTL") =>
    LET key == adapterCall'.key
        expiresAt == now + adapterCall'.ttl
    IN IF adapterCall'.ok
       THEN /\ key \in DOMAIN cacheStore
            /\ cacheStore' = [cacheStore EXCEPT ![key].metadata.expiresAt = expiresAt]
            /\ key \in DOMAIN cacheRegistry'
            /\ cacheRegistry'[key] = expiresAt
            /\ \A k \in DOMAIN cacheRegistry' \ {key} :
                 k \in DOMAIN cacheRegistry /\ cacheRegistry'[k] = cacheRegistry[k]
       ELSE /\ key \notin DOMAIN cacheStore
            /\ cacheStore' = cacheStore /\ cacheRegistry' = cacheRegistry

\* C18: updateCacheTTL(key, t) on an existing entry resolves, sets the entry's
\* expiresAt and the registry record of key to now + t and changes nothing
\* else; on a key without entry it rejects and changes nothing.
C18_UpdateCacheTTL == [][C18_Step]_vars


\* the entry e with its access time set aside
SameButAccess(e, f) ==
  /\ e.data = f.data
  /\ [e.metadata EXCEPT !.lastAccessed = 0] = [f.metadata EXCEPT !.lastAccessed = 0]

C19_Step ==
  (AdapterStep("getCache") /\ adapterCall'.ok) =>
    LET key == adapterCall'.key
        returned == adapterCall'.entry
    IN /\ returned # Null => returned.metadata.expiresAt >= now
       /\ CASE key \notin DOMAIN cacheStore ->
                 /\ returned = Null
                 /\ cacheStore' = cacheStore /\ cacheRegistry' = cacheRegistry
            [] key \in DOMAIN cacheStore
                 /\ cacheStore[key].metadata.expiresAt < now ->
                 /\ returned = Null
                 /\ cacheStore' = [k \in DOMAIN cacheStore \ {key} |-> cacheStore[k]]
                 /\ cacheRegistry'
                      = [k \in DOMAIN cacheRegistry \ {key} |-> cacheRegistry[k]]
            [] OTHER ->
                 /\ returned = [cacheStore[key] EXCEPT !.metadata.lastAccessed = now]
                 /\ cacheStore' = [cacheStore EXCEPT ![key] = returned]
                 /\ cacheRegistry' = cacheRegistry

\* C19: getCache(key) returns null when there is no entry; deletes the entry
\* and its registry record and returns null when expiresAt is in the past;
\* otherwise returns the stored entry with only lastAccessed updated; it never
\* returns an entry whose expiresAt has passed.
C19_GetCache == [][C19_Step]_vars

\* getCache found an expired entry with its registry record and deleted both
C19_Witness ==
  /\ adapterCall.op = "getCache" /\ adapterCall.ok
  /\ adapterCall.found # Null /\ adapterCall.entry = Null
  /\ adapterCall.registryChanged
  /\ adapterCall.key \notin DOMAIN cacheStore
  /\ adapterCall.key \notin DOMAIN cacheRegistry

\* the second of two getCache(key) with no other cache call between them
C20_SecondGet ==
  /\ AdapterStep("getCache") /\ adapterCall'.ok
  /\ adapterCall.op = "getCache" /\ adapterCall.key = adapterCall'.key

C20_Same ==
  /\ (adapterCall.entry = Null) = (adapterCall'.entry = Null)
  /\ SameButAccess(adapterCall.entry, adapterCall'.entry)
  /\ ~adapterCall.registryChanged /\ ~adapterCall'.registryChanged

\* C20 as stated: two consecutive getCache(key) return identical data, differ
\* only in lastAccessed, and leave the registry as it was.
C20_ReadIdempotent == [][C20_SecondGet => C20_Same]_vars

\* C20 amended: the same, for an entry that has not expired by the time of
\* either call (or for a key without entry); an entry expired at the second
\* call is deleted with its registry record and null is returned.
C20_ReadIdempotentUnexpired ==
  [][(/\ C20_SecondGet
      /\ adapterCall.found # Null => adapterCall.found.metadata.expiresAt >= now)
     => C20_Same]_vars

\* a second getCache returned the data the first one returned
C20_Witness ==
  /\ adapterCall.op = "getCache" /\ adapterCall.repeat
  /\ adapterCall.entry # Null
  /\ adapterCall.found.metadata.lastAccessed >= 0
  /\ adapterCall.entry.metadata.lastAccessed > adapterCall.found.metadata.lastAccessed


C22_Rejected(c) ==
  /\ calls'[c].pc = "done" /\ calls'[c].ret = "rejected"
  /\ calls'[c].error = "validation"
  /\ queueStore' = queueStore

C22_Stored(c) ==
  LET id == calls[c].operationId
      operation == calls[c].operation
  IN /\ id \in DOMAIN queueStore'
     /\ queueStore'[id].operation = operation
     /\ queueStore'[id].metadata.status = "pending"
     /\ queueStore'[id].metadata.retryCount = 0
     /\ queueStore'[id].metadata.priority =
          IF "priority" \in DOMAIN operation THEN operation.priority ELSE 1
     /\ \A k \in DOMAIN queueStore \ {id} :
          k \in DOMAIN queueStore' /\ queueStore'[k] = queueStore[k]

C22_QueueOperationStep ==
  \A c \in Slots :
    /\ (/\ Free(c) /\ calls'[c].kind = "queueOperation"
        /\ ~ValidQueueArgs(calls'[c].operationId, calls'[c].operation))
         => C22_Rejected(c)
    /\ (/\ Free(c) /\ calls'[c].kind = "queueOperation"
        /\ ValidQueueArgs(calls'[c].operationId, calls'[c].operation))
         => calls'[c].pc = "awaitQueueStore"
    /\ (/\ calls[c].pc = "awaitQueueStore" /\ calls'[c].pc # "awaitQueueStore"
        /\ faultCount' = faultCount)
         => C22_Stored(c)

C22_QueueOperation == [][C22_QueueOperationStep]_vars


\* C23: the queue holds one entry per operationId: queueOperation with an id
\* that is already queued replaces the stored operation and resets its
\* metadata (timestamp of the new call, status pending, retryCount 0), and
\* adds no entry; with a new id it adds exactly that one entry.
C23_OverwriteStep ==
  \A c \in Slots :
    (/\ calls[c].pc = "awaitQueueStore" /\ calls'[c].pc # "awaitQueueStore"
     /\ faultCount' = faultCount)
      => LET id == calls[c].operationId
         IN /\ DOMAIN queueStore' = DOMAIN queueStore \cup {id}
            /\ queueStore'[id].operation = calls[c].operation
            /\ queueStore'[id].metadata.timestamp = calls[c].timestamp
            /\ queueStore'[id].metadata.status = "pending"
            /\ queueStore'[id].metadata.retryCount = 0
            /\ id \in DOMAIN queueStore =>
                 /\ queueStore'[id].seq # queueStore[id].seq
                 /\ Cardinality(DOMAIN queueStore') = Cardinality(DOMAIN queueStore)

C23_OneEntryPerId == [][C23_OverwriteStep]_vars

\* the coordinator was never online, so nothing was removed: the entry under
\* op1 left by the earlier session was replaced by a later one with another
\* operation and a later timestamp, next to the two other entries
C23_Witness ==
  /\ ~isOnline /\ flips = 0
  /\ DOMAIN queueStore = OpIds
  /\ queueStore["op1"].seq > Cardinality(OpIds)
  /\ queueStore["op1"].operation.type = "UPSERT"
  /\ queueStore["op1"].metadata.timestamp > 0


\* C24: sync() called while the coordinator is offline emits exactly one
\* syncSkipped and nothing else: no syncStart, no read of the queue, no remote
\* call, the busy flag and the queue are unchanged, and the promise resolves.
C24_SkippedStep ==
  \A c \in Slots :
    (/\ Free(c) /\ calls'[c].kind \in {"sync", "timer"}
     /\ ~isOnline)
      => /\ calls'[c].pc = "done" /\ calls'[c].ret = "resolved"
         /\ calls'[c].emitted = <<Event("syncSkipped", "", 0, 0)>>
         /\ calls'[c].reads = 0
         /\ calls'[c].remote = <<>>
         /\ calls'[c].pass = 0
         /\ isSyncing' = isSyncing
         /\ queueStore' = queueStore

C24_OfflineSyncSkipped == [][C24_SkippedStep]_vars

\* sync() was called offline, while a pass that began online is still in
\* flight, and has resolved after one syncSkipped
C24_Witness ==
  \E c \in Slots :
    /\ calls[c].kind = "sync" /\ calls[c].pc = "done" /\ ~calls[c].wasOnline
    /\ calls[c].ret = "resolved"
    /\ Len(calls[c].emitted) = 1 /\ calls[c].emitted[1].name = "syncSkipped"
    /\ isSyncing /\ queueStore # EmptyStore


\* C25: every cache and queue operation waits for the readiness barrier: an
\* operation invoked before the initialization of the backend is done touches
\* no store until then and is not rejected as not ready; it then proceeds and
\* gives what the same operation gives on the stores of that moment.
C25_Outcome(c) ==
  LET s == calls[c]
      t == calls'[c]
  IN /\ t.ret = "resolved"
     /\ s.kind = "setCache" =>
          /\ s.cacheKey \in DOMAIN cacheStore'
          /\ cacheStore'[s.cacheKey].data = s.value
          /\ cacheRegistry'[s.cacheKey] = cacheStore'[s.cacheKey].metadata.expiresAt
     /\ s.kind = "getCache" =>
          /\ t.found = getCache(cacheStore, cacheRegistry, s.cacheKey, now).entry
          /\ s.cacheKey \notin DOMAIN cacheStore => t.found = Null
          /\ t.found # Null => t.found.data = cacheStore[s.cacheKey].data
     /\ s.kind = "queueOperation" =>
          /\ s.operationId \in DOMAIN queueStore'
          /\ queueStore'[s.operationId].operation = s.operation
     /\ s.kind = "getPendingOperations" =>
          /\ t.snapshot = getPendingOperations(queueStore)
          /\ Len(t.snapshot) = Cardinality(DOMAIN queueStore)

C25_BarrierStep ==
  /\ ~storesReady =>
       /\ cacheStore' = cacheStore /\ cacheRegistry' = cacheRegistry
       /\ queueStore' = queueStore
       /\ \A c \in Slots : calls[c].pc = "awaitReady" => calls'[c].pc = "awaitReady"
  /\ \A c \in Slots :
       (calls[c].pc = "awaitReady" /\ calls'[c].pc # "awaitReady")
         => calls'[c].pc = "done" /\ calls'[c].error # "notReady" /\ C25_Outcome(c)

C25_ReadinessBarrier == [][C25_BarrierStep]_vars

\* a getCache and a setCache of one key were both invoked before the stores
\* existed; the getCache has resolved with the entry the setCache stored
C25_Witness ==
  \E c \in Slots :
    /\ calls[c].kind = "getCache" /\ calls[c].early
    /\ calls[c].pc = "done" /\ calls[c].ret = "resolved"
    /\ calls[c].found # Null
    /\ storesReady


\* C26: the cache key is canonical: two requests with the same query and
\* logically equal parameters have the same key whatever the order of the
\* parameter fields, so a result that is cached and not expired is found by a
\* later request that is logically the same.
C26_FieldsOf(params) == {params[i] : i \in 1..Len(params)}

C26_SameRequest(k1, k2) ==
  k1[1] = k2[1] /\ C26_FieldsOf(k1[2]) = C26_FieldsOf(k2[2])

C26_CanonicalKey ==
  (/\ adapterCall.op = "getCache"
   /\ \E k \in DOMAIN cacheStore :
        /\ C26_SameRequest(k, adapterCall.key)
        /\ cacheStore[k].metadata.expiresAt >= now)
    => adapterCall.entry # Null


\* C27: clearQueryCache(Q) removes the entry that executeQuery(Q) cached, and
\* clearQueryCache() without a query removes every cached entry.
C27_KeyOfExecuteQuery(call) ==
  generateCacheKey(call.query,
                   IF call.options = NullOptions THEN <<>> ELSE call.options)

C27_ClearStep ==
  \A c \in Slots :
    (/\ calls[c].kind = "clearQueryCache"
     /\ calls[c].pc = "awaitClear" /\ calls'[c].pc = "done")
      => /\ calls'[c].ret = "resolved"
         /\ IF calls[c].query # NoQuery
            THEN C27_KeyOfExecuteQuery(calls[c]) \notin DOMAIN cacheStore'
            ELSE cacheStore' = EmptyStore /\ cacheRegistry' = EmptyStore

C27_ClearQueryCache == [][C27_ClearStep]_vars


\* C28: within one pass the remote executor receives the queries of the
\* operations in the order of the list that getPendingOperations returned at
\* the start of the pass (priority descending, then timestamp ascending), one
\* at a time, and each operation of that list at most once.
C28_Pos(c, id) ==
  CHOOSE k \in DOMAIN calls[c].snapshot : calls[c].snapshot[k].operationId = id

C28_ReplayOrder ==
  \A c \in Slots :
    calls[c].pass = 1 =>
      LET s == calls[c]
      IN /\ \A j \in DOMAIN s.remote :
              \E k \in DOMAIN s.snapshot :
                /\ s.snapshot[k].operationId = s.remote[j].operationId
                /\ s.snapshot[k].operation.query = s.remote[j].query
         /\ \A j1, j2 \in DOMAIN s.remote :
              j1 < j2 => C28_Pos(c, s.remote[j1].operationId)
                           < C28_Pos(c, s.remote[j2].operationId)
         /\ \A k1, k2 \in DOMAIN s.snapshot :
              k1 < k2 =>
                LET a == s.snapshot[k1].metadata
                    b == s.snapshot[k2].metadata
                IN \/ a.priority > b.priority
                   \/ a.priority = b.priority /\ a.timestamp <= b.timestamp
         /\ s.pc = "awaitRemote" =>
              \A j \in DOMAIN s.remote : C28_Pos(c, s.remote[j].operationId) < s.i
         /\ s.pc = "awaitRemove" =>
              /\ s.remote # <<>>
              /\ C28_Pos(c, Last(s.remote).operationId) = s.i

\* a pass over the queue of the earlier session has sent its three operations:
\* priority 3 first, priority 1 last
C28_Witness ==
  \E c \in Slots :
    /\ PassDone(c)
    /\ Len(calls[c].remote) = 3
    /\ calls[c].remote[1].operationId = "op2"
    /\ calls[c].remote[2].operationId = "op3"
    /\ calls[c].remote[3].operationId = "op1"
    /\ calls[c].remote[1].outcome # "success"


\* C29: every pass that emits syncStart emits exactly one terminal event,
\* syncComplete or syncError and never both, with all its syncProgress and
\* syncConflict events between the two; a pass over an empty queue emits only
\* syncStart and syncComplete{operationsSynced: 0} and makes no remote call.
C29_Index(c, names) ==
  {j \in DOMAIN calls[c].emitted : calls[c].emitted[j].name \in names}

C29_Start(c) == CHOOSE j \in C29_Index(c, {"syncStart"}) : TRUE

C29_TerminalEvent ==
  \A c \in Slots :
    calls[c].pass = 1 =>
      LET e == calls[c].emitted
          terminal == C29_Index(c, {"syncComplete", "syncError"})
          inner == C29_Index(c, {"syncProgress", "syncConflict"})
      IN /\ Cardinality(C29_Index(c, {"syncStart"})) = 1
         /\ \A j \in inner : C29_Start(c) < j
         /\ InPass(c) => terminal = {}
         /\ calls[c].pc = "done" =>
              /\ Cardinality(terminal) = 1
              /\ \A j \in terminal : j = Len(e)
              /\ (calls[c].reads = 1 /\ calls[c].snapshot = <<>>) =>
                   /\ inner = {} /\ calls[c].remote = <<>>
                   /\ Last(e) = Event("syncComplete", "", 0, 0)


\* C30: when the read of the pending operations fails at the start of a pass,
\* the pass is aborted: syncError is emitted, no syncComplete and no
\* syncProgress, no remote call is made, the queue is unchanged, and sync()
\* resolves.
C30_AbortStep ==
  \A c \in Slots :
    (/\ calls[c].pc = "awaitPending"
     /\ calls'[c].faults = Append(calls[c].faults, Fault("getPendingOperations", "")))
      => /\ calls'[c].pc = "done" /\ calls'[c].ret = "resolved"
         /\ calls'[c].emitted = Append(calls[c].emitted, Event("syncError", "", 0, 0))
         /\ \A j \in DOMAIN calls'[c].emitted :
              calls'[c].emitted[j].name \notin {"syncComplete", "syncProgress"}
         /\ calls'[c].remote = <<>>
         /\ queueStore' = queueStore
         /\ ~isSyncing'

C30_QueueReadFailure == [][C30_AbortStep]_vars

\* the read of a non-empty queue failed and the sync() of that pass resolved
C30_Witness ==
  \E c \in Slots :
    /\ calls[c].kind = "sync" /\ calls[c].pc = "done" /\ calls[c].pass = 1
    /\ calls[c].faults = <<Fault("getPendingOperations", "")>>
    /\ calls[c].ret = "resolved"
    /\ Last(calls[c].emitted).name = "syncError"
    /\ DOMAIN queueStore = OpIds


\* C31: a pass in flight is not interrupted by stopSync(), by the coordinator
\* going offline or by destroy(): those calls leave the pass where it is, and
\* when the pass ends it has attempted every operation of its snapshot and
\* emitted its terminal event.
C31_Attempted(c, k) ==
  LET op == calls[c].snapshot[k]
  IN \/ Answers(c, op.operationId) # {}
     \/ /\ InvalidFormat(op.operation) \/ ~SupportedType(op.operation.type)
        /\ Conflicts(c, op.operationId) # {}

C31_RunsToCompletion ==
  \A c \in Slots :
    (calls[c].pass = 1 /\ calls[c].pc = "done") =>
         /\ \A k \in DOMAIN calls[c].snapshot : C31_Attempted(c, k)
         /\ Last(calls[c].emitted).name \in {"syncComplete", "syncError"}

C31_LifecycleStep ==
  (lifecycle' # lifecycle \/ isOnline' # isOnline \/ activeTimers' # activeTimers)
    => calls' = calls /\ isSyncing' = isSyncing /\ queueStore' = queueStore

C31_NotInterrupted == [][C31_RunsToCompletion' /\ C31_LifecycleStep]_vars

\* a pass that began online has ended after the coordinator went offline and
\* was destroyed while the pass was in flight: all three operations were sent
C31_Witness ==
  \E c \in Slots :
    /\ calls[c].pass = 1 /\ calls[c].pc = "done" /\ calls[c].wasOnline
    /\ ~isOnline /\ flips = 1 /\ lifecycle = "destroy" /\ activeTimers = 0
    /\ Len(calls[c].snapshot) = 3 /\ Len(calls[c].remote) = 3
    /\ Last(calls[c].emitted).name = "syncComplete"


\* C32: after any sequence of handleOnline, handleOffline, startSync, stopSync
\* and destroy at most one periodic timer is active, and none after
\* handleOffline, stopSync or destroy; handleOnline emits online and leaves the
\* timer running, handleOffline emits offline and leaves it stopped; a call
\* started by a timer tick found the coordinator online and idle, became a
\* pass and never emits syncSkipped.
C32_Timers ==
  /\ activeTimers = (IF syncInterval THEN 1 ELSE 0)
  /\ lifecycle \in {"handleOffline", "stopSync", "destroy"} => activeTimers = 0
  /\ lifecycle \in {"handleOnline", "startSync"} => activeTimers = 1
  /\ lifecycle = "handleOnline" => isOnline /\ connectivityEvent = "online"
  /\ lifecycle = "handleOffline" => ~isOnline /\ connectivityEvent = "offline"
  /\ \A c \in Slots :
       calls[c].kind = "timer" =>
         /\ calls[c].wasOnline /\ calls[c].pass = 1
         /\ calls[c].emitted # <<>>
         /\ calls[c].emitted[1].name = "syncStart"
         /\ \A k \in DOMAIN calls[c].emitted :
              calls[c].emitted[k].name # "syncSkipped"

\* a pass started by a tick has ended, the coordinator has since gone offline
\* and been destroyed
C32_Witness ==
  \E c \in Slots :
    /\ calls[c].kind = "timer" /\ calls[c].pc = "done"
    /\ Len(calls[c].snapshot) > 0
    /\ ~isOnline /\ lifecycle = "destroy" /\ flips = MaxFlips


\* C33: queueOperation(id, op) of the coordinator emits operationQueued once
\* exactly when the operation was persisted (a validation or storage failure
\* rejects the call and emits nothing), and before any syncStart it triggers;
\* when online it invokes sync() once, and a failure of that sync never makes
\* queueOperation reject; when offline it invokes no sync and emits no
\* syncSkipped.
C33_Count(c, name) ==
  Cardinality({k \in DOMAIN calls[c].emitted : calls[c].emitted[k].name = name})

C33_Call ==
  \A c \in Slots :
    calls[c].kind = "queueOperation" =>
      /\ C33_Count(c, "operationQueued") <= 1
      /\ C33_Count(c, "syncStart") <= 1
      /\ C33_Count(c, "syncSkipped") = 0
      /\ calls[c].emitted # <<>> =>
           calls[c].emitted[1].name = "operationQueued"
      /\ calls[c].pc = "done" =>
           /\ C33_Count(c, "operationQueued") = 1
                <=> calls[c].error \notin {"validation", "storage"}
           /\ calls[c].error \in {"validation", "storage"} =>
                calls[c].ret = "rejected" /\ calls[c].emitted = <<>>
           /\ calls[c].emitted # <<>> => calls[c].ret = "resolved"

\* the step in which the write of the queue store settles
C33_Step ==
  \A c \in Slots :
    (/\ calls[c].kind = "queueOperation"
     /\ calls[c].pc = "awaitQueueStore"
     /\ calls'[c].pc # "awaitQueueStore") =>
      IF calls'[c].faults # <<>>
      THEN /\ calls'[c].ret = "rejected" /\ calls'[c].error = "storage"
           /\ calls'[c].emitted = <<>>
           /\ queueStore' = queueStore /\ isSyncing' = isSyncing
      ELSE /\ calls[c].operationId \in DOMAIN queueStore'
           /\ queueStore'[calls[c].operationId].operation = calls[c].operation
           /\ IF isOnline /\ ~isSyncing
              THEN /\ calls'[c].pass = 1 /\ isSyncing'
                   /\ calls'[c].pc = "awaitPending"
                   /\ Len(calls'[c].emitted) = 2
                   /\ calls'[c].emitted[2].name = "syncStart"
              ELSE /\ calls'[c].pass = 0 /\ isSyncing' = isSyncing
                   /\ calls'[c].pc = "done" /\ calls'[c].ret = "resolved"
                   /\ Len(calls'[c].emitted) = 1

C33_QueueOperationEvents == [][C33_Call' /\ C33_Step]_vars

\* an enqueue made online has resolved although the pass it started failed to
\* read the queue
C33_Witness ==
  \E c \in Slots :
    /\ calls[c].kind = "queueOperation" /\ calls[c].pc = "done"
    /\ calls[c].ret = "resolved" /\ calls[c].pass = 1
    /\ Len(calls[c].emitted) = 3
    /\ calls[c].emitted[1].name = "operationQueued"
    /\ calls[c].emitted[2].name = "syncStart"
    /\ calls[c].emitted[3].name = "syncError"
    /\ calls[c].operationId \in DOMAIN queueStore


\* C35: cleanupExpiredCache removes from the store and from the registry
\* exactly the keys whose registry expiresAt is earlier than now, leaves every
\* other entry and record unchanged and returns the number removed; it never
\* rejects, and a failure part-way through does not leave the registry listing
\* keys whose entries the sweep already deleted.
C35_Expired == {k \in DOMAIN cacheRegistry : cacheRegistry[k] < now}

C35_CleanupStep ==
  (started' # started /\ adapterCall'.op = "cleanupExpiredCache") =>
    /\ adapterCall'.ok
    /\ \A k \in DOMAIN cacheStore \ DOMAIN cacheStore' :
         k \notin DOMAIN cacheRegistry'
    /\ faultCount' = faultCount =>
         /\ cacheStore' = [k \in DOMAIN cacheStore \ C35_Expired |-> cacheStore[k]]
         /\ cacheRegistry' =
              [k \in DOMAIN cacheRegistry \ C35_Expired |-> cacheRegistry[k]]
         /\ adapterCall'.removedCount = Cardinality(C35_Expired)

C35_CleanupContract == [][C35_CleanupStep]_vars


\* C34: an expiry sweep that interleaves with foreground cache operations
\* never deletes an entry that is not expired at the time of the deletion,
\* and when the sweep writes the registry as the last of the interleaved
\* operations, it drops the record of no entry that is present, so that
\* entries and records correspond once all operations have finished.
C34_SweepRemoves(c, key) ==
  /\ calls[c].kind = "cleanupExpiredCache"
  /\ calls[c].pc = "awaitRemoveItem"
  /\ key \in DOMAIN cacheStore /\ key \notin DOMAIN cacheStore'

C34_SweepFinishes(c) ==
  /\ calls[c].kind = "cleanupExpiredCache"
  /\ calls[c].pc = "awaitRegistryWrite" /\ calls'[c].pc = "done"
  /\ \A d \in Slots \ {c} : calls[d].pc = "idle"

C34_SweepStep ==
  \A c \in Slots, key \in CacheKeys :
    /\ C34_SweepRemoves(c, key) => cacheStore[key].metadata.expiresAt < now
    /\ (C34_SweepFinishes(c) /\ key \in DOMAIN cacheStore
          /\ key \in DOMAIN cacheRegistry) => key \in DOMAIN cacheRegistry'

C34_SweepTolerant == [][C34_SweepStep]_vars

\* C40: the write-back of getCache(key) never re-creates an entry that was
\* removed since getCache read it and never replaces data written since by
\* the older data it had read.
C40_WriteBackStep ==
  \A c \in Slots :
    (/\ calls[c].kind = "getCache" /\ calls[c].pc = "awaitWriteBack"
     /\ calls'[c].pc = "done") =>
      /\ calls[c].cacheKey \in DOMAIN cacheStore
      /\ cacheStore[calls[c].cacheKey].data = calls[c].found.data

C40_WriteBackSafe == [][C40_WriteBackStep]_vars


\* C36: an operation whose query the remote executor accepted with status
\* 'success' is never sent to the remote executor again, by the same pass or
\* by a later one, whatever the outcome of the removal that follows.
C36_SentStep ==
  \A c \in Slots :
    (/\ calls[c].pc = "awaitRemote"
     /\ Len(calls'[c].remote) > Len(calls[c].remote)) =>
      calls[c].snapshot[calls[c].i].seq \notin accepted

C36_NoDuplicateWrite == [][C36_SentStep]_vars

\* C37: an entry stored under an operationId while a pass that snapshotted an
\* older entry of the same id is in flight is removed from the queue only
\* after its own query was executed remotely with status 'success'.
C37_RemovedStep ==
  \A id \in DOMAIN queueStore :
    id \notin DOMAIN queueStore' => queueStore[id].seq \in accepted

C37_NoLostWrite == [][C37_RemovedStep]_vars


\* C38: every operation enqueued through queueOperation while online is
\* eventually attempted by a pass, the opportunistic one or a later one,
\* while the coordinator stays online and the caller makes no explicit
\* sync() call: it does not stay queued forever without an attempt.
C38_Queued(n) == \E id \in DOMAIN queueStore : queueStore[id].seq = n

C38_Attempted(n) ==
  \E c \in Slots : \E k \in DOMAIN calls[c].snapshot :
    /\ calls[c].snapshot[k].seq = n
    /\ \E j \in DOMAIN calls[c].remote :
         calls[c].remote[j].operationId = calls[c].snapshot[k].operationId

C38_EventuallyAttempted ==
  \A n \in 1..MaxCalls :
    C38_Queued(n) ~> (C38_Attempted(n) \/ ~C38_Queued(n))


\* C39: a read for which the gateway issued a remote request returns the
\* remote result or rejects, and never returns cached data, also when the
\* connectivity changes to offline while the remote call is in flight.
C39_SingleRoute ==
  \A c \in Slots :
    (GatewayRead(calls[c]) /\ calls[c].remote # <<>>) =>
      calls[c].value.kind \notin {"cached", "stale"}

====
